---- MODULE Spec2Model ----
(***************************************************************************)
(* The LLM completion gateway of crates/collab/src/llm.rs: the token       *)
(* middleware (validate_api_token), the completion handler                 *)
(* (perform_completion), the quota engine (check_usage_limit), the         *)
(* active-user snapshot (LlmState::get_active_user_count) and the counting *)
(* stream whose destruction fires the usage accounting                     *)
(* (TokenCountingStream).                                                  *)
(*                                                                         *)
(* The usage store (llm/db), the token codec (llm/token) and the           *)
(* authorization hook (llm/authorization) are modules of the repository    *)
(* whose code is not part of the sources at hand; what the gateway         *)
(* consumes of them is modelled from the specification (validate,          *)
(* db_model, get_usage, record_usage) or drawn as an input (the policy     *)
(* verdict, the result of the active-user query).                          *)
(***************************************************************************)
EXTENDS Integers, Sequences, FiniteSets, Bags, TLC

\* ------------------------------------------------------------------ bounds

\* Requests the gateway serves in one behaviour, one after the other.
NumReqs == 2
\* Frames one upstream stream yields as Ok before it must end or fail.
MaxFrames == 2
\* Clock ticks of TickSeconds each that a behaviour spans.
MaxTicks == 1
\* Seconds per clock tick.
TickSeconds == 60
\* Concurrent callers of get_active_user_count.
NumCallers == 2
\* Seconds per tick of the clock the snapshot's age is measured with.
CacheStep == 10
\* Ticks of CacheStep seconds a behaviour of the snapshot cache spans.
MaxCacheTicks == 4
\* Concurrent perform_llm_completion calls of one client.
NumClients == 2
\* Segments a client may append to a model name of the tables.
MaxSuffix == 1
\* Completions of one user that are under way at once.
NumBurst == 2

\* --------------------------------------------------------- program constants

\* const ACTIVE_USER_COUNT_CACHE_DURATION: Duration = Duration::seconds(30)
ACTIVE_USER_COUNT_CACHE_DURATION == 30
\* Seconds in the minute and the day bucket of a usage row.
SecondsPerMinute == 60
SecondsPerDay == 86400
\* What a usize division by zero yields: the thread panics.  Limits are
\* usize, so no computed limit is negative and -1 is free to stand for it.
DivisionByZeroPanic == -1

\* ------------------------------------------------------------------ options

\* Option<T>: None is the empty sequence, Some(v) the one-element sequence.
None == << >>

Some(v) == << v >>

unwrap_or(opt, default) == IF opt = None THEN default ELSE opt[1]

Max(a, b) == IF a >= b THEN a ELSE b

\* ---------------------------------------------------------------- providers

Providers == {"anthropic", "open_ai", "google", "zed"}

\* A model name is a string; it is modelled as the sequence of the segments
\* it is made of, so that starts_with is the prefix relation on sequences.
IsPrefix(p, s) == Len(p) <= Len(s) /\ SubSeq(s, 1, Len(p)) = p

Claude35Sonnet == << "claude-3", "-5", "-sonnet" >>

Claude3Haiku == << "claude-3", "-haiku" >>

Claude3Opus == << "claude-3", "-opus" >>

Claude3Sonnet == << "claude-3", "-sonnet" >>

Gpt35Turbo == << "gpt-", "3.5-turbo" >>

Gpt4TurboPreview == << "gpt-", "4", "-turbo-preview" >>

Gpt4oMini == << "gpt-", "4", "o", "-mini" >>

Gpt4o == << "gpt-", "4", "o" >>

Gpt4 == << "gpt-", "4" >>

\* The prefix table of normalize_model_name, in the order of the source.
prefixes(provider) ==
    CASE provider = "anthropic" ->
           << Claude35Sonnet, Claude3Haiku, Claude3Opus, Claude3Sonnet >>
      [] provider = "open_ai" ->
           << Gpt35Turbo, Gpt4TurboPreview, Gpt4oMini, Gpt4o, Gpt4 >>
      [] provider = "google" -> << >>
      [] provider = "zed" -> << >>

\* A normalization that keeps the shortest of the entries the name starts
\* with.
normalize_model_name_shortest(provider, name) ==
    LET table == prefixes(provider)
        matching == { i \in 1..Len(table) : IsPrefix(table[i], name) }
    IN  IF matching = {}
        THEN name
        ELSE LET least == CHOOSE i \in matching :
                             \A j \in matching :
                                 Len(table[i]) <= Len(table[j])
             IN  table[least]

\* A normalization that looks only at the entries shorter than the name.
normalize_model_name_proper_prefix(provider, name) ==
    LET table == prefixes(provider)
        matching == { i \in 1..Len(table) :
                         IsPrefix(table[i], name) /\ table[i] # name }
    IN  IF matching = {}
        THEN name
        ELSE LET best == CHOOSE i \in matching :
                            \A j \in matching :
                                \/ Len(table[j]) < Len(table[i])
                                \/ (Len(table[j]) = Len(table[i]) /\ j <= i)
             IN  table[best]

\* filter(starts_with).max_by_key(len): among the entries the name starts
\* with, the one of greatest length, and of those the last in table order
\* (Iterator::max_by_key returns the last maximum).  The entries that match
\* one name are prefixes of one another, so their order by segment count is
\* their order by byte length.
normalize_model_name(provider, name) ==
    LET table == prefixes(provider)
        matching == { i \in 1..Len(table) : IsPrefix(table[i], name) }
    IN  IF matching = {}
        THEN name
        ELSE LET best == CHOOSE i \in matching :
                            \A j \in matching :
                                \/ Len(table[j]) < Len(table[i])
                                \/ (Len(table[j]) = Len(table[i]) /\ j <= i)
             IN  table[best]

\* ------------------------------------------------------------------- tokens

\* The token carries user_id as an unsigned 64-bit number and the usage store
\* is keyed by a signed 32-bit one.  The key's width is scaled down from 32
\* bits to KeyBits; the ids of the tokens are wider than the key.
KeyBits == 2

\* claims.user_id as i32: the narrowing cast keeps the low KeyBits bits and
\* reads them as a two's-complement number.
as_i32(user_id) ==
    LET modulus == 2 ^ KeyBits
        low == user_id % modulus
    IN  IF low >= modulus \div 2 THEN low - modulus ELSE low

\* The users that hold tokens: two ids that differ above the key's width.
Users == {1, 5}

\* LlmTokenClaims, as far as the gateway reads them: a member of the public
\* and a member of staff.
Claims ==
    {[user_id |-> 1, is_staff |-> FALSE], [user_id |-> 5, is_staff |-> TRUE]}

\* Instants at which a token may expire: before the clock starts, or after
\* the last instant the clock reaches.
ExpiryTimes == {-1, (MaxTicks + 1) * TickSeconds}

\* A bearer token: its payload and whether its signature matches the payload.
Tokens ==
    [claims : Claims, expires_at : ExpiryTimes, signature_ok : {TRUE}]
    \cup [claims : {[user_id |-> 1, is_staff |-> FALSE]},
          expires_at : ExpiryTimes, signature_ok : {FALSE}]

\* LlmTokenClaims::validate: the signature is checked before any field is
\* read; a token whose expires_at lies before now is Expired; every other
\* failure is Invalid.
validate(token, t) ==
    IF ~token.signature_ok THEN [kind |-> "Invalid", claims |-> token.claims]
    ELSE IF token.expires_at < t
         THEN [kind |-> "Expired", claims |-> token.claims]
         ELSE [kind |-> "Ok", claims |-> token.claims]

\* The Authorization header of a request.
Headers ==
    {[kind |-> "missing"], [kind |-> "malformed"]}
    \cup {[kind |-> "bearer", token |-> t] : t \in Tokens}

\* ---------------------------------------------------------------- responses

NoHeaders == {}

ExpiredHeaders == {<< "x-zed-llm-token-expired", "true" >>}

NoResponse == [status |-> 0, headers |-> NoHeaders, body |-> "", resource |-> ""]

\* Error::http(status, message) and Error::Http(status, message, headers).
HttpError(status, headers, body) ==
    [status |-> status, headers |-> headers, body |-> body, resource |-> ""]

\* Error::Internal(_): the framework answers 500.
InternalError == HttpError(500, NoHeaders, "internal server error")

\* A middleware that turns away only the tokens whose signature fails.
token_admitted_unless_invalid(result) == result.kind # "Invalid"

\* validate_api_token: the request is passed on to the handler on Ok(claims).
token_admitted(result) == result.kind = "Ok"

\* A middleware that answers every failed validation alike.
validation_error_response_plain(kind) ==
    HttpError(401, NoHeaders, "unauthorized")

\* validate_api_token's answer to a failed validation.
validation_error_response(kind) ==
    IF kind = "Expired"
    THEN HttpError(401, ExpiredHeaders, "unauthorized")
    ELSE HttpError(401, NoHeaders, "unauthorized")

\* ------------------------------------------------------------- usage store

\* The model table of the usage store: the caps of each known model.
Gemini15Pro == << "gemini-1.5-pro" >>

Qwen27b == << "qwen2-7b-instruct" >>

ModelCaps(rpm, tpm, tpd) ==
    [max_requests_per_minute |-> rpm, max_tokens_per_minute |-> tpm,
     max_tokens_per_day |-> tpd]

KnownModels ==
    {<< "anthropic", Claude35Sonnet >>, << "open_ai", Gpt4o >>,
     << "google", Gemini15Pro >>, << "zed", Qwen27b >>}

\* LlmDatabase::model: the descriptor of a known model, or NotFound.
db_model(provider, name) ==
    CASE << provider, name >> = << "anthropic", Claude35Sonnet >> ->
           Some(ModelCaps(1, 6, 9))
      [] << provider, name >> = << "open_ai", Gpt4o >> ->
           Some(ModelCaps(4, 2, 9))
      [] << provider, name >> = << "google", Gemini15Pro >> ->
           Some(ModelCaps(2, 2, 2))
      [] << provider, name >> = << "zed", Qwen27b >> ->
           Some(ModelCaps(4, 9, 2))
      [] OTHER -> None

minute_of(t) == t \div SecondsPerMinute

day_of(t) == t \div SecondsPerDay

\* A usage row: the counters and the buckets they were last written in.
ZeroRow ==
    [requests_this_minute |-> 0, tokens_this_minute |-> 0,
     tokens_this_day |-> 0, minute |-> 0, day |-> 0]

\* LlmDatabase::get_usage: the counters of the buckets current at t; a
\* counter whose bucket has passed reads 0.
get_usage(row, t) ==
    [requests_this_minute |->
        IF row.minute = minute_of(t) THEN row.requests_this_minute ELSE 0,
     tokens_this_minute |->
        IF row.minute = minute_of(t) THEN row.tokens_this_minute ELSE 0,
     tokens_this_day |->
        IF row.day = day_of(t) THEN row.tokens_this_day ELSE 0]

\* LlmDatabase::record_usage: one request and the tokens are added to the
\* buckets current at t; a counter of a passed bucket restarts from the
\* delta.
record_usage(row, input_tokens, output_tokens, t) ==
    LET current == get_usage(row, t)
        tokens == input_tokens + output_tokens
    IN  [requests_this_minute |-> current.requests_this_minute + 1,
         tokens_this_minute |-> current.tokens_this_minute + tokens,
         tokens_this_day |-> current.tokens_this_day + tokens,
         minute |-> minute_of(t), day |-> day_of(t)]

\* ------------------------------------------------------------ quota engine

\* usize division: a zero divisor panics.
usize_div(a, b) == IF b = 0 THEN DivisionByZeroPanic ELSE a \div b

\* Limits that divide the per-day cap by the per-minute count as well.
per_user_limits_by_minutes(model, active_users) ==
    [per_user_max_requests_per_minute |->
        usize_div(model.max_requests_per_minute,
                  Max(active_users.users_in_recent_minutes, 1)),
     per_user_max_tokens_per_minute |->
        usize_div(model.max_tokens_per_minute,
                  Max(active_users.users_in_recent_minutes, 1)),
     per_user_max_tokens_per_day |->
        usize_div(model.max_tokens_per_day,
                  Max(active_users.users_in_recent_minutes, 1))]

\* Limits that divide by the counts as the snapshot reports them.
per_user_limits_unclamped(model, active_users) ==
    [per_user_max_requests_per_minute |->
        usize_div(model.max_requests_per_minute,
                  active_users.users_in_recent_minutes),
     per_user_max_tokens_per_minute |->
        usize_div(model.max_tokens_per_minute,
                  active_users.users_in_recent_minutes),
     per_user_max_tokens_per_day |->
        usize_div(model.max_tokens_per_day,
                  active_users.users_in_recent_days)]

\* The three per-user limits of check_usage_limit.
per_user_limits(model, active_users) ==
    [per_user_max_requests_per_minute |->
        usize_div(model.max_requests_per_minute,
                  Max(active_users.users_in_recent_minutes, 1)),
     per_user_max_tokens_per_minute |->
        usize_div(model.max_tokens_per_minute,
                  Max(active_users.users_in_recent_minutes, 1)),
     per_user_max_tokens_per_day |->
        usize_div(model.max_tokens_per_day,
                  Max(active_users.users_in_recent_days, 1))]

\* A checks array whose first entry compares the minute's tokens.
usage_checks_copy_paste(model, usage, active_users) ==
    LET limits == per_user_limits(model, active_users)
    IN  << << usage.tokens_this_minute,
              limits.per_user_max_requests_per_minute,
              "requests per minute" >>,
           << usage.tokens_this_minute,
              limits.per_user_max_tokens_per_minute,
              "tokens per minute" >>,
           << usage.tokens_this_day,
              limits.per_user_max_tokens_per_day,
              "tokens per day" >> >>

\* The checks array of check_usage_limit: (usage, limit, resource), in order.
usage_checks(model, usage, active_users) ==
    LET limits == per_user_limits(model, active_users)
    IN  << << usage.requests_this_minute,
              limits.per_user_max_requests_per_minute,
              "requests per minute" >>,
           << usage.tokens_this_minute,
              limits.per_user_max_tokens_per_minute,
              "tokens per minute" >>,
           << usage.tokens_this_day,
              limits.per_user_max_tokens_per_day,
              "tokens per day" >> >>

\* An iteration that does not look at is_staff.
check_fails_for_everyone(check, claims) == check[1] > check[2]

\* An iteration that rejects usage equal to the limit.
check_fails_inclusive(check, claims) ==
    IF claims.is_staff THEN FALSE ELSE check[1] >= check[2]

\* An iteration that lets usage pass the limit by one.
check_fails_one_past_limit(check, claims) ==
    IF claims.is_staff THEN FALSE ELSE check[1] > check[2] + 1

\* One iteration of the loop: TRUE when it returns the rejection.
check_fails(check, claims) ==
    IF claims.is_staff THEN FALSE ELSE check[1] > check[2]

QuotaOk == [ok |-> TRUE, resource |-> ""]

TooManyRequests(resource) == [ok |-> FALSE, resource |-> resource]

\* A loop that keeps the last failure it met and returns it at the end.
check_usage_limit_last_failure(model, usage, active_users, claims) ==
    LET checks == usage_checks(model, usage, active_users)
        failing == { i \in 1..Len(checks) : check_fails(checks[i], claims) }
    IN  IF failing = {}
        THEN QuotaOk
        ELSE LET last == CHOOSE i \in failing : \A j \in failing : j <= i
             IN  TooManyRequests(checks[last][3])

\* The loop of check_usage_limit: the first iteration that fails returns.
check_usage_limit(model, usage, active_users, claims) ==
    LET checks == usage_checks(model, usage, active_users)
        failing == { i \in 1..Len(checks) : check_fails(checks[i], claims) }
    IN  IF failing = {}
        THEN QuotaOk
        ELSE LET first == CHOOSE i \in failing : \A j \in failing : i <= j
             IN  TooManyRequests(checks[first][3])

\* The answer to a quota rejection; resource is the argument of the format.
rate_limit_response(resource) ==
    [status |-> 429, headers |-> NoHeaders,
     body |-> "Rate limit exceeded. Maximum {} reached.",
     resource |-> resource]

\* -------------------------------------------------------- provider adapters

\* The (provider, model) pairs clients ask for.
ClientRequests ==
    {<< "anthropic", Claude35Sonnet \o << "-20240620" >> >>,
     << "anthropic", << "claude-2" >> >>,
     << "open_ai", Gpt4o \o << "-2024-05-13" >> >>,
     << "google", Gemini15Pro >>,
     << "zed", Qwen27b >>}

\* The events an upstream stream may yield, per provider.
AnthropicEvents ==
    {[type |-> "message_start", input_tokens |-> Some(2),
      output_tokens |-> Some(1)],
     [type |-> "message_delta", input_tokens |-> None,
      output_tokens |-> Some(3)],
     [type |-> "content_block_delta", input_tokens |-> None,
      output_tokens |-> None]}

OpenAiEvents ==
    {[type |-> "chunk", usage |-> None],
     [type |-> "chunk",
      usage |-> Some([prompt_tokens |-> 2, completion_tokens |-> 1])]}

GoogleEvents == {[type |-> "chunk", total_token_count |-> 3]}

upstream_events(provider) ==
    CASE provider = "anthropic" -> AnthropicEvents
      [] provider = "open_ai" -> OpenAiEvents
      [] provider = "google" -> GoogleEvents
      [] provider = "zed" -> OpenAiEvents

\* An adapter that reads the usage of message_start only.
anthropic_token_counts_start_only(event) ==
    IF event.type = "message_start"
    THEN << unwrap_or(event.input_tokens, 0),
            unwrap_or(event.output_tokens, 0) >>
    ELSE << 0, 0 >>

\* The (input_tokens, output_tokens) an adapter reads from one event.
anthropic_token_counts(event) ==
    IF event.type \in {"message_start", "message_delta"}
    THEN << unwrap_or(event.input_tokens, 0),
            unwrap_or(event.output_tokens, 0) >>
    ELSE << 0, 0 >>

open_ai_token_counts(chunk) ==
    IF chunk.usage = None
    THEN << 0, 0 >>
    ELSE << chunk.usage[1].prompt_tokens, chunk.usage[1].completion_tokens >>

google_token_counts(chunk) == << 0, 0 >>

token_counts(provider, event) ==
    CASE provider = "anthropic" -> anthropic_token_counts(event)
      [] provider = "open_ai" -> open_ai_token_counts(event)
      [] provider = "google" -> google_token_counts(event)
      [] provider = "zed" -> open_ai_token_counts(event)

\* How the handler answers a failure to open the upstream stream.
open_error_response(provider, failure) ==
    IF provider = "anthropic" /\ failure = "rate_limited"
    THEN HttpError(429, NoHeaders, "Upstream Anthropic rate limit exceeded.")
    ELSE InternalError

\* -------------------------------------------------------- the counting stream

\* TokenCountingStream { .., input_tokens: 0, output_tokens: 0, .. }
new_stream == [input_tokens |-> 0, output_tokens |-> 0]

\* A poll_next that adds the input tokens only.
poll_next_ok_input_only(stream, counts) ==
    [input_tokens |-> stream.input_tokens + counts[1],
     output_tokens |-> stream.output_tokens]

\* poll_next on Poll::Ready(Some(Ok((bytes, input_tokens, output_tokens)))).
poll_next_ok(stream, counts) ==
    [input_tokens |-> stream.input_tokens + counts[1],
     output_tokens |-> stream.output_tokens + counts[2]]

\* What drop() moves into the detached task.
drop_captures(r_claims, r_provider, r_model, stream) ==
    [user_id |-> as_i32(r_claims.user_id), is_staff |-> r_claims.is_staff,
     provider |-> r_provider, model |-> r_model,
     input_token_count |-> stream.input_tokens,
     output_token_count |-> stream.output_tokens]

\* The LlmUsageEventRow the detached task builds from what it captured and
\* from the usage record_usage returned.
usage_event_row(captured, after) ==
    [user_id |-> captured.user_id, is_staff |-> captured.is_staff,
     model |-> captured.model, provider |-> captured.provider,
     input_token_count |-> captured.input_token_count,
     output_token_count |-> captured.output_token_count,
     requests_this_minute |-> after.requests_this_minute,
     tokens_this_minute |-> after.tokens_this_minute,
     tokens_this_day |-> after.tokens_this_day]

\* -------------------------------------------------------------------- state

VARIABLES
    now,                \* Utc::now(), in seconds
    config,             \* Config: the providers an API key is configured for
    usage,              \* the usage store: a row per (user key, provider, model)
    active_user_count,  \* LlmState.active_user_count: (last_updated, count)
    req,                \* per completion: where it stands and its locals
    stream,             \* per completion: its TokenCountingStream
    task,               \* per completion: what drop() moved into the detached task
    trace,              \* per completion: the calls made for it, in order
    yielded,            \* per completion: the bag of events poll_next yielded as Ok
    recorded,           \* per completion: the record_usage calls made for it
    reported,           \* per completion: the rows handed to the analytics sink
    served,             \* the requests that have arrived so far
    probe               \* an input of check_usage_limit and its result

\* The callers of get_active_user_count and the lock around the snapshot.
VARIABLES
    counting,           \* per caller of get_active_user_count: where it stands
    count_lock,         \* active_user_count's RwLock: the caller holding it for writing
    db_queries          \* the active-user queries the usage store has run

\* The client: its token cache and its perform_llm_completion calls.
VARIABLES
    llm_api_token,      \* LlmApiToken: the cached token, if any
    token_lock,         \* LlmApiToken's RwLock: the call holding it exclusively
    fetches,            \* the GetLlmToken requests the control plane has answered
    completions         \* per perform_llm_completion call: where it stands

\* One response body, frame by frame.
VARIABLES
    inner_stream,       \* the adapter's stream: "open", "failed" or "ended"
    polled,             \* the frames the adapter has yielded as Ok, in order
    body                \* the chunks poll_next has handed to the client, in order

side ==
    << counting, count_lock, db_queries, llm_api_token, token_lock, fetches,
       completions, inner_stream, polled, body >>

vars ==
    << now, config, usage, active_user_count, req, stream, task, trace,
       yielded, recorded, reported, served, probe, side >>

\* The connections of the gateway.  One connection carries one request at a
\* time; its next request arrives when the one before has been answered
\* and, if it streamed, accounted for.
Conns == {1}

UsageKeys == { << as_i32(u), m[1], m[2] >> : u \in Users, m \in KnownModels }

\* The counts the active-user query of the usage store may return.
ActiveUserCounts ==
    {[users_in_recent_minutes |-> 0, users_in_recent_days |-> 0],
     [users_in_recent_minutes |-> 2, users_in_recent_days |-> 2]}

\* The configuration of the deployment: the self-hosted provider has no key,
\* and no ClickHouse URL is set, so LlmState::new built no client.
Configs == {[api_keys |-> Providers \ {"zed"}, clickhouse_client |-> FALSE]}

IdleReq ==
    [pc |-> "idle", validation |-> "none",
     claims |-> [user_id |-> 1, is_staff |-> FALSE],
     name |-> << >>, provider |-> "anthropic", model |-> << >>,
     opened |-> "",
     usage |-> get_usage(ZeroRow, 0),
     active_users |-> [users_in_recent_minutes |-> 0,
                       users_in_recent_days |-> 0],
     read_at |-> 0, ended |-> "", response |-> NoResponse]

NoTask ==
    [user_id |-> 0, is_staff |-> FALSE, provider |-> "anthropic",
     model |-> << >>,
     input_token_count |-> 0, output_token_count |-> 0]

NoProbe == [phase |-> "off"]

\* The callers of get_active_user_count.
Callers == 1..NumCallers

NoSnapshot ==
    [last_updated |-> 0,
     count |-> [users_in_recent_minutes |-> 0, users_in_recent_days |-> 0]]

IdleCaller ==
    [pc |-> "idle", now |-> 0, seen |-> NoSnapshot, queried |-> FALSE,
     got |-> None, wrote |-> None, result |-> None]

Unlocked == 0

\* The perform_llm_completion calls of the client.
Clients == 1..NumClients

NoToken == 0

IdleCompletion ==
    [pc |-> "idle", token |-> NoToken, did_retry |-> FALSE,
     acquire_saw |-> None, fetching |-> "", sent |-> << >>,
     responses |-> << >>, refreshes |-> 0]

\* No caller of get_active_user_count beside the request pipeline.
NoCallers ==
    /\ counting = << >>
    /\ count_lock = Unlocked
    /\ db_queries = << >>

\* No client holds or asks for a token.
NoClient ==
    /\ llm_api_token = None
    /\ token_lock = Unlocked
    /\ fetches = << >>
    /\ completions = << >>

\* No response body beside those of the request pipeline.
NoBody ==
    /\ inner_stream = "ended"
    /\ polled = << >>
    /\ body = << >>

\* The gateway serves no request.
NoGateway ==
    /\ now = 0
    /\ config \in Configs
    /\ usage = << >>
    /\ req = << >>
    /\ task = << >>
    /\ trace = << >>
    /\ yielded = << >>
    /\ recorded = << >>
    /\ reported = << >>
    /\ served = 0
    /\ probe = NoProbe

\* The request pipeline alone.
SideIdle ==
    /\ NoCallers
    /\ NoClient
    /\ NoBody

\* LlmState::new: the snapshot is taken from the usage store at startup.
Init ==
    /\ now = 0
    /\ config \in Configs
    /\ usage = [k \in UsageKeys |-> ZeroRow]
    /\ \E count \in ActiveUserCounts :
          active_user_count = [last_updated |-> 0, count |-> count]
    /\ req = [r \in Conns |-> IdleReq]
    /\ stream = [r \in Conns |-> new_stream]
    /\ task = [r \in Conns |-> NoTask]
    /\ trace = [r \in Conns |-> << >>]
    /\ yielded = [r \in Conns |-> EmptyBag]
    /\ recorded = [r \in Conns |-> << >>]
    /\ reported = [r \in Conns |-> << >>]
    /\ served = 0
    /\ probe = NoProbe
    /\ SideIdle

\* A handler that has wrapped the response body before the step that fails,
\* so that the error return drops a counting stream.
Respond_dropping_stream(r, response, calls) ==
    /\ req' = [req EXCEPT ![r].pc = "spawned", ![r].response = response]
    /\ trace' = [trace EXCEPT ![r] = @ \o calls]

\* The request ends with an error response before any stream exists.
Respond(r, response, calls) ==
    /\ req' = [req EXCEPT ![r].pc = "responded", ![r].response = response]
    /\ trace' = [trace EXCEPT ![r] = @ \o calls]

\* The same, from a step that has bound locals before it fails.
RespondWith(r, locals, response, calls) ==
    /\ req' = [req EXCEPT
                  ![r] = [locals EXCEPT !.pc = "responded",
                                        !.response = response]]
    /\ trace' = [trace EXCEPT ![r] = @ \o calls]

\* ------------------------------------------------------------------ actions

\* validate_api_token: the middleware in front of the handler.  A request
\* arrives on a connection that carries none.
ValidateApiToken(r) ==
    /\ req[r].pc \in {"idle", "responded", "done"}
    /\ served < NumReqs
    /\ served' = served + 1
    /\ \E header \in Headers :
          LET answer(response, validation, calls) ==
                  /\ req' = [req EXCEPT
                                ![r] = [IdleReq EXCEPT
                                           !.pc = "responded",
                                           !.validation = validation,
                                           !.response = response]]
                  /\ trace' = [trace EXCEPT ![r] = calls]
          IN  CASE header.kind = "missing" ->
                     answer(HttpError(400, NoHeaders,
                                      "missing authorization header"),
                            "none", << >>)
                [] header.kind = "malformed" ->
                     answer(HttpError(400, NoHeaders,
                                      "invalid authorization header"),
                            "none", << >>)
                [] header.kind = "bearer" ->
                     LET result == validate(header.token, now)
                     IN  IF token_admitted(result)
                         THEN /\ req' = [req EXCEPT
                                            ![r] = [IdleReq EXCEPT
                                                       !.pc = "perform_completion",
                                                       !.validation = result.kind,
                                                       !.claims = result.claims]]
                              /\ trace' = [trace EXCEPT ![r] = << "validate" >>]
                         ELSE answer(validation_error_response(result.kind),
                                     result.kind, << "validate" >>)
    /\ stream' = [stream EXCEPT ![r] = new_stream]
    /\ task' = [task EXCEPT ![r] = NoTask]
    /\ yielded' = [yielded EXCEPT ![r] = EmptyBag]
    /\ recorded' = [recorded EXCEPT ![r] = << >>]
    /\ reported' = [reported EXCEPT ![r] = << >>]
    /\ UNCHANGED << now, config, usage, active_user_count, probe, side >>

\* A check_usage_limit that reads the usage row before it resolves the
\* model descriptor.
PerformCompletion_reading_usage_first(r) ==
    /\ req[r].pc = "perform_completion"
    /\ \E params \in ClientRequests, authorized \in BOOLEAN :
          LET provider == params[1]
              model == normalize_model_name(provider, params[2])
              locals == [req[r] EXCEPT !.name = params[2],
                                       !.provider = provider,
                                       !.model = model]
          IN  IF ~authorized
              THEN RespondWith(r, locals,
                               HttpError(403, NoHeaders, "access forbidden"),
                               << "authorize" >>)
              ELSE IF db_model(provider, model) = None
                   THEN RespondWith(r, locals,
                                    HttpError(404, NoHeaders, "unknown model"),
                                    << "authorize", "get_usage", "db.model" >>)
                   ELSE /\ req' = [req EXCEPT
                                      ![r] = [locals EXCEPT !.pc = "get_usage"]]
                        /\ trace' = [trace EXCEPT
                                        ![r] = @ \o << "authorize", "db.model" >>]
    /\ UNCHANGED << now, config, usage, active_user_count, stream, task,
                    yielded, recorded, reported, served, probe, side >>

\* A handler that resolves the model descriptor before it asks the policy.
PerformCompletion_authorizing_late(r) ==
    /\ req[r].pc = "perform_completion"
    /\ \E params \in ClientRequests, authorized \in BOOLEAN :
          LET provider == params[1]
              model == normalize_model_name(provider, params[2])
              locals == [req[r] EXCEPT !.name = params[2],
                                       !.provider = provider,
                                       !.model = model]
          IN  IF db_model(provider, model) = None
              THEN RespondWith(r, locals,
                               HttpError(404, NoHeaders, "unknown model"),
                               << "db.model" >>)
              ELSE IF ~authorized
                   THEN RespondWith(r, locals,
                                    HttpError(403, NoHeaders, "access forbidden"),
                                    << "db.model", "authorize" >>)
                   ELSE /\ req' = [req EXCEPT
                                      ![r] = [locals EXCEPT !.pc = "get_usage"]]
                        /\ trace' = [trace EXCEPT
                                        ![r] = @ \o << "db.model", "authorize" >>]
    /\ UNCHANGED << now, config, usage, active_user_count, stream, task,
                    yielded, recorded, reported, served, probe, side >>

\* perform_completion up to the first await of check_usage_limit: the name
\* is normalized, access is authorized and the model descriptor resolved.
PerformCompletion(r) ==
    /\ req[r].pc = "perform_completion"
    /\ \E params \in ClientRequests, authorized \in BOOLEAN :
          LET provider == params[1]
              model == normalize_model_name(provider, params[2])
              locals == [req[r] EXCEPT !.name = params[2],
                                       !.provider = provider,
                                       !.model = model]
          IN  IF ~authorized
              THEN RespondWith(r, locals,
                               HttpError(403, NoHeaders, "access forbidden"),
                               << "authorize" >>)
              ELSE IF db_model(provider, model) = None
                   THEN RespondWith(r, locals,
                                    HttpError(404, NoHeaders, "unknown model"),
                                    << "authorize", "db.model" >>)
                   ELSE /\ req' = [req EXCEPT
                                      ![r] = [locals EXCEPT !.pc = "get_usage"]]
                        /\ trace' = [trace EXCEPT
                                        ![r] = @ \o << "authorize", "db.model" >>]
    /\ UNCHANGED << now, config, usage, active_user_count, stream, task,
                    yielded, recorded, reported, served, probe, side >>

\* check_usage_limit: the usage row is read from the store.
GetUsage(r) ==
    /\ req[r].pc = "get_usage"
    /\ \E db_ok \in BOOLEAN :
          IF db_ok
          THEN LET key == << as_i32(req[r].claims.user_id), req[r].provider,
                             req[r].model >>
               IN  /\ req' = [req EXCEPT
                                 ![r].pc = "get_active_user_count",
                                 ![r].read_at = now,
                                 ![r].usage = get_usage(usage[key], now)]
                   /\ trace' = [trace EXCEPT ![r] = @ \o << "get_usage" >>]
          ELSE Respond(r, InternalError, << "get_usage" >>)
    /\ UNCHANGED << now, config, usage, active_user_count, stream, task,
                    yielded, recorded, reported, served, probe, side >>

\* LlmState::get_active_user_count: the cached snapshot while it is younger
\* than the cache duration; otherwise the store is queried (count = None
\* when the query fails) and the answer cached.
get_active_user_count(cache, t) ==
    IF t - cache.last_updated < ACTIVE_USER_COUNT_CACHE_DURATION
    THEN {[count |-> Some(cache.count), cache |-> cache]}
    ELSE {[count |-> Some(c), cache |-> [last_updated |-> t, count |-> c]] :
             c \in ActiveUserCounts}
         \cup {[count |-> None, cache |-> cache]}

\* check_usage_limit from the active-user lookup on: the limits are computed
\* and the three checks made.
CheckUsageLimit(r) ==
    /\ req[r].pc = "get_active_user_count"
    /\ \E got \in get_active_user_count(active_user_count, now) :
          /\ active_user_count' = got.cache
          /\ IF got.count = None
             THEN Respond(r, InternalError, << "get_active_user_count" >>)
             ELSE LET active_users == got.count[1]
                      model == db_model(req[r].provider, req[r].model)[1]
                      verdict == check_usage_limit(model, req[r].usage,
                                                   active_users, req[r].claims)
                  IN  /\ req' = [req EXCEPT
                                    ![r].pc = IF verdict.ok THEN "open"
                                              ELSE "responded",
                                    ![r].active_users = active_users,
                                    ![r].response =
                                        IF verdict.ok THEN @
                                        ELSE rate_limit_response(verdict.resource)]
                      /\ trace' = [trace EXCEPT
                                      ![r] = @ \o << "get_active_user_count",
                                                     IF verdict.ok THEN "admitted"
                                                     ELSE "rejected" >>]
    /\ UNCHANGED << now, config, usage, stream, task, yielded, recorded, reported,
                    served, probe, side >>

\* perform_completion from the provider match on: the key is looked up, the
\* provider request parsed, the upstream stream opened and, when that
\* succeeded, the TokenCountingStream constructed as the response body.
OpenUpstream(r) ==
    /\ req[r].pc = "open"
    /\ IF req[r].provider \notin config.api_keys
       THEN /\ Respond(r, InternalError, << >>)
            /\ UNCHANGED stream
       ELSE \E parse_ok \in BOOLEAN, outcome \in {"ok", "rate_limited", "other"} :
               IF ~parse_ok
               THEN /\ Respond(r, InternalError, << >>)
                    /\ UNCHANGED stream
               ELSE IF outcome # "ok"
                    THEN /\ RespondWith(r, [req[r] EXCEPT !.opened = outcome],
                                        open_error_response(req[r].provider,
                                                            outcome),
                                        << "stream_completion" >>)
                         /\ UNCHANGED stream
                    ELSE /\ req' = [req EXCEPT
                                       ![r].pc = "streaming",
                                       ![r].opened = outcome,
                                       ![r].response =
                                           [NoResponse EXCEPT !.status = 200]]
                         /\ stream' = [stream EXCEPT ![r] = new_stream]
                         /\ trace' = [trace EXCEPT
                                         ![r] = @ \o << "stream_completion",
                                                        "TokenCountingStream" >>]
    /\ UNCHANGED << now, config, usage, active_user_count, task, yielded,
                    recorded, reported, served, probe, side >>

\* poll_next: the upstream yields an event.
PollFrame(r) ==
    /\ req[r].pc = "streaming"
    /\ BagCardinality(yielded[r]) < MaxFrames
    /\ \E event \in upstream_events(req[r].provider) :
          /\ stream' = [stream EXCEPT
                           ![r] = poll_next_ok(@, token_counts(req[r].provider,
                                                               event))]
          /\ yielded' = [yielded EXCEPT ![r] = @ (+) SetToBag({event})]
    /\ UNCHANGED << now, config, usage, active_user_count, req, task, trace,
                    recorded, reported, served, probe, side >>

\* A poll_next that starts the count afresh when the upstream fails.
PollError_resetting_counters(r) ==
    /\ req[r].pc = "streaming"
    /\ req' = [req EXCEPT ![r].pc = "finished", ![r].ended = "error"]
    /\ stream' = [stream EXCEPT ![r] = new_stream]
    /\ UNCHANGED << now, config, usage, active_user_count, task,
                    trace, yielded, recorded, reported, served, probe, side >>

\* poll_next: the upstream yields an error, which is passed on.
PollError(r) ==
    /\ req[r].pc = "streaming"
    /\ req' = [req EXCEPT ![r].pc = "finished", ![r].ended = "error"]
    /\ UNCHANGED << now, config, usage, active_user_count, stream, task,
                    trace, yielded, recorded, reported, served, probe, side >>

\* poll_next: the upstream has ended.
PollEnd(r) ==
    /\ req[r].pc = "streaming"
    /\ req' = [req EXCEPT ![r].pc = "finished", ![r].ended = "end"]
    /\ UNCHANGED << now, config, usage, active_user_count, stream, task,
                    trace, yielded, recorded, reported, served, probe, side >>

\* A stream that was constructed with the name the client sent.
Drop_recording_raw_name(r) ==
    /\ req[r].pc \in {"streaming", "finished"}
    /\ req' = [req EXCEPT
                  ![r].pc = "spawned",
                  ![r].ended = IF req[r].pc = "streaming" THEN "disconnect"
                               ELSE @]
    /\ task' = [task EXCEPT
                   ![r] = drop_captures(req[r].claims, req[r].provider,
                                        req[r].name, stream[r])]
    /\ UNCHANGED << now, config, usage, active_user_count, stream, trace,
                    yielded, recorded, reported, served, probe, side >>

\* A drop that spawns nothing.
Drop_without_accounting(r) ==
    /\ req[r].pc \in {"streaming", "finished"}
    /\ req' = [req EXCEPT
                  ![r].pc = "done",
                  ![r].ended = IF req[r].pc = "streaming" THEN "disconnect"
                               ELSE @]
    /\ UNCHANGED << now, config, usage, active_user_count, stream, task,
                    trace, yielded, recorded, reported, served, probe, side >>

\* drop: the body is released, after the stream finished or because the
\* client went away; the accounting is spawned as a detached task.
Drop(r) ==
    /\ req[r].pc \in {"streaming", "finished"}
    /\ req' = [req EXCEPT
                  ![r].pc = "spawned",
                  ![r].ended = IF req[r].pc = "streaming" THEN "disconnect"
                               ELSE @]
    /\ task' = [task EXCEPT
                   ![r] = drop_captures(req[r].claims, req[r].provider,
                                        req[r].model, stream[r])]
    /\ UNCHANGED << now, config, usage, active_user_count, stream, trace,
                    yielded, recorded, reported, served, probe, side >>

\* A task that reports to the sink whatever record_usage returned.
RunAccounting_reporting_failures(r) ==
    /\ req[r].pc = "spawned"
    /\ \E db_ok \in BOOLEAN, sink_ok \in BOOLEAN :
          LET key == << task[r].user_id, task[r].provider, task[r].model >>
              ok == db_ok /\ key \in DOMAIN usage
              after == IF ok
                       THEN record_usage(usage[key], task[r].input_token_count,
                                         task[r].output_token_count, now)
                       ELSE ZeroRow
          IN  /\ recorded' = [recorded EXCEPT
                                 ![r] = Append(@, [args |-> task[r], at |-> now,
                                                   ok |-> ok])]
              /\ usage' = IF ok THEN [usage EXCEPT ![key] = after] ELSE usage
              /\ reported' =
                    IF config.clickhouse_client
                    THEN [reported EXCEPT
                             ![r] = Append(@, [row |-> usage_event_row(
                                                          task[r],
                                                          get_usage(after, now)),
                                               delivered |-> sink_ok])]
                    ELSE reported
    /\ req' = [req EXCEPT ![r].pc = "done"]
    /\ trace' = [trace EXCEPT ![r] = @ \o << "record_usage" >>]
    /\ UNCHANGED << now, config, active_user_count, stream, task, yielded,
                    served, probe, side >>

\* An accounting that records against the time the quota check read the row.
RunAccounting_in_admission_bucket(r) ==
    /\ req[r].pc = "spawned"
    /\ \E db_ok \in BOOLEAN, sink_ok \in BOOLEAN :
          LET key == << task[r].user_id, task[r].provider, task[r].model >>
              ok == db_ok /\ key \in DOMAIN usage
              after == IF ok
                       THEN record_usage(usage[key], task[r].input_token_count,
                                         task[r].output_token_count,
                                         req[r].read_at)
                       ELSE ZeroRow
          IN  /\ recorded' = [recorded EXCEPT
                                 ![r] = Append(@, [args |-> task[r], at |-> now,
                                                   ok |-> ok])]
              /\ usage' = IF ok THEN [usage EXCEPT ![key] = after] ELSE usage
              /\ reported' =
                    IF ok /\ config.clickhouse_client
                    THEN [reported EXCEPT
                             ![r] = Append(@, [row |-> usage_event_row(
                                                          task[r],
                                                          get_usage(after, now)),
                                               delivered |-> sink_ok])]
                    ELSE reported
    /\ req' = [req EXCEPT ![r].pc = "done"]
    /\ trace' = [trace EXCEPT ![r] = @ \o << "record_usage" >>]
    /\ UNCHANGED << now, config, active_user_count, stream, task, yielded,
                    served, probe, side >>

\* The detached task: record_usage is called; its failure (the store is
\* unreachable, or holds no such model) is logged only.  When it returned
\* the usage and a ClickHouse client exists, one row is handed to the sink,
\* whose failure is logged only.
RunAccounting(r) ==
    /\ req[r].pc = "spawned"
    /\ \E db_ok \in BOOLEAN, sink_ok \in BOOLEAN :
          LET key == << task[r].user_id, task[r].provider, task[r].model >>
              ok == db_ok /\ key \in DOMAIN usage
              after == IF ok
                       THEN record_usage(usage[key], task[r].input_token_count,
                                         task[r].output_token_count, now)
                       ELSE ZeroRow
          IN  /\ recorded' = [recorded EXCEPT
                                 ![r] = Append(@, [args |-> task[r], at |-> now,
                                                   ok |-> ok])]
              /\ usage' = IF ok THEN [usage EXCEPT ![key] = after] ELSE usage
              /\ reported' =
                    IF ok /\ config.clickhouse_client
                    THEN [reported EXCEPT
                             ![r] = Append(@, [row |-> usage_event_row(
                                                          task[r],
                                                          get_usage(after, now)),
                                               delivered |-> sink_ok])]
                    ELSE reported
    /\ req' = [req EXCEPT ![r].pc = "done"]
    /\ trace' = [trace EXCEPT ![r] = @ \o << "record_usage" >>]
    /\ UNCHANGED << now, config, active_user_count, stream, task, yielded,
                    served, probe, side >>

\* Time passes, for as long as a request is under way or may still arrive:
\* nothing reads the clock after the last one.
Tick ==
    /\ now < MaxTicks * TickSeconds
    /\ \/ served < NumReqs
       \/ \E r \in Conns : req[r].pc \notin {"responded", "done"}
    /\ now' = now + TickSeconds
    /\ UNCHANGED << config, usage, active_user_count, req, stream, task,
                    trace, yielded, recorded, reported, served, probe, side >>

Next ==
    \/ \E r \in Conns : ValidateApiToken(r)
    \/ \E r \in Conns : PerformCompletion(r)
    \/ \E r \in Conns : GetUsage(r)
    \/ \E r \in Conns : CheckUsageLimit(r)
    \/ \E r \in Conns : OpenUpstream(r)
    \/ \E r \in Conns : PollFrame(r)
    \/ \E r \in Conns : PollError(r)
    \/ \E r \in Conns : PollEnd(r)
    \/ \E r \in Conns : Drop(r)
    \/ \E r \in Conns : RunAccounting(r)
    \/ Tick

Spec == Init /\ [][Next]_vars

\* ------------------------------------------------ one request, step by step

\* The rows earlier completions may have left in the usage store: none, or
\* one completion of six tokens recorded at the start of the clock.
SeedRows == {ZeroRow, record_usage(ZeroRow, 2, 4, 0)}

\* The deployments a request may meet: with and without a ClickHouse client.
RequestConfigs ==
    Configs \cup {[api_keys |-> Providers \ {"zed"}, clickhouse_client |-> TRUE]}

\* The gateway after earlier traffic: every row of the store holds what one
\* earlier completion left, and the last request of the behaviour is yet to
\* arrive.
RequestInit ==
    /\ now = 0
    /\ config \in RequestConfigs
    /\ \E row \in SeedRows : usage = [k \in UsageKeys |-> row]
    /\ \E count \in ActiveUserCounts :
          active_user_count = [last_updated |-> 0, count |-> count]
    /\ req = [r \in Conns |-> IdleReq]
    /\ stream = [r \in Conns |-> new_stream]
    /\ task = [r \in Conns |-> NoTask]
    /\ trace = [r \in Conns |-> << >>]
    /\ yielded = [r \in Conns |-> EmptyBag]
    /\ recorded = [r \in Conns |-> << >>]
    /\ reported = [r \in Conns |-> << >>]
    /\ served = NumReqs - 1
    /\ probe = NoProbe
    /\ SideIdle

SpecRequest == RequestInit /\ [][Next]_vars

\* ------------------------------------------- the active-user snapshot cache

\* What get_active_user_count does not touch.
outside_cache ==
    << config, usage, req, stream, task, trace, yielded, recorded, reported, served,
       probe, llm_api_token, token_lock, fetches, completions, inner_stream,
       polled, body >>

\* A test that also takes a snapshot of exactly the cache duration as fresh.
snapshot_is_fresh_inclusive(last_updated, t) ==
    t - last_updated <= ACTIVE_USER_COUNT_CACHE_DURATION

\* now - *last_updated < ACTIVE_USER_COUNT_CACHE_DURATION
snapshot_is_fresh(last_updated, t) ==
    t - last_updated < ACTIVE_USER_COUNT_CACHE_DURATION

\* let now = Utc::now(); every caller makes one call.
BeginCount(c) ==
    /\ counting[c].pc = "idle"
    /\ counting' = [counting EXCEPT
                       ![c] = [IdleCaller EXCEPT !.pc = "read", !.now = now]]
    /\ UNCHANGED << now, active_user_count, count_lock, db_queries,
                    outside_cache >>

\* A read path that still holds its read guard when it goes on to ask for
\* the write lock.
ReadSnapshot_keeping_guard(c) ==
    /\ counting[c].pc = "read"
    /\ count_lock = Unlocked
    /\ counting' = [counting EXCEPT
                       ![c].seen = active_user_count,
                       ![c].pc =
                           IF snapshot_is_fresh(active_user_count.last_updated,
                                                counting[c].now)
                           THEN "returned" ELSE "write",
                       ![c].result =
                           IF snapshot_is_fresh(active_user_count.last_updated,
                                                counting[c].now)
                           THEN Some(active_user_count.count) ELSE None]
    /\ count_lock' =
          IF snapshot_is_fresh(active_user_count.last_updated, counting[c].now)
          THEN Unlocked ELSE c
    /\ UNCHANGED << now, active_user_count, db_queries,
                    outside_cache >>

\* The snapshot is read under the read lock, which is released before the
\* write lock is asked for; a fresh snapshot is returned.
ReadSnapshot(c) ==
    /\ counting[c].pc = "read"
    /\ count_lock = Unlocked
    /\ counting' = [counting EXCEPT
                       ![c].seen = active_user_count,
                       ![c].pc =
                           IF snapshot_is_fresh(active_user_count.last_updated,
                                                counting[c].now)
                           THEN "returned" ELSE "write",
                       ![c].result =
                           IF snapshot_is_fresh(active_user_count.last_updated,
                                                counting[c].now)
                           THEN Some(active_user_count.count) ELSE None]
    /\ UNCHANGED << now, active_user_count, count_lock, db_queries,
                    outside_cache >>

\* A write path that looks at the snapshot again once it holds the lock.
LockForWriting_checking_again(c) ==
    /\ counting[c].pc = "write"
    /\ count_lock = Unlocked
    /\ IF snapshot_is_fresh(active_user_count.last_updated, counting[c].now)
       THEN /\ counting' = [counting EXCEPT
                               ![c].pc = "returned",
                               ![c].result = Some(active_user_count.count)]
            /\ UNCHANGED count_lock
       ELSE /\ count_lock' = c
            /\ counting' = [counting EXCEPT ![c].pc = "query"]
    /\ UNCHANGED << now, active_user_count, db_queries,
                    outside_cache >>

\* let mut cache = self.active_user_count.write().await;
LockForWriting(c) ==
    /\ counting[c].pc = "write"
    /\ count_lock = Unlocked
    /\ count_lock' = c
    /\ counting' = [counting EXCEPT ![c].pc = "query"]
    /\ UNCHANGED << now, active_user_count, db_queries,
                    outside_cache >>

\* One run of the store's active-user query: who asked, the time it was
\* asked for, the timestamp of the snapshot cached when it ran, its success.
query_entry(c, ok) ==
    [by |-> c, now |-> counting[c].now,
     cached_at |-> active_user_count.last_updated, ok |-> ok]

\* A query whose failure is answered with the snapshot in the cache.
QueryStore_falling_back(c) ==
    /\ counting[c].pc = "query"
    /\ count_lock = c
    /\ \/ \E new_count \in ActiveUserCounts :
             /\ counting' = [counting EXCEPT ![c].pc = "store",
                                             ![c].queried = TRUE,
                                             ![c].got = Some(new_count)]
             /\ db_queries' = Append(db_queries, query_entry(c, TRUE))
             /\ UNCHANGED count_lock
       \/ /\ counting' = [counting EXCEPT
                              ![c].pc = "returned",
                              ![c].queried = TRUE,
                              ![c].result = Some(active_user_count.count)]
          /\ db_queries' = Append(db_queries, query_entry(c, FALSE))
          /\ count_lock' = Unlocked
    /\ UNCHANGED << now, active_user_count,
                    outside_cache >>

\* self.db.get_active_user_count(now).await?: the store is queried while the
\* write lock is held; a failed query returns the error and drops the guard.
QueryStore(c) ==
    /\ counting[c].pc = "query"
    /\ count_lock = c
    /\ \/ \E new_count \in ActiveUserCounts :
             /\ counting' = [counting EXCEPT ![c].pc = "store",
                                             ![c].queried = TRUE,
                                             ![c].got = Some(new_count)]
             /\ db_queries' = Append(db_queries, query_entry(c, TRUE))
             /\ UNCHANGED count_lock
       \/ /\ counting' = [counting EXCEPT ![c].pc = "returned",
                                          ![c].queried = TRUE]
          /\ db_queries' = Append(db_queries, query_entry(c, FALSE))
          /\ count_lock' = Unlocked
    /\ UNCHANGED << now, active_user_count,
                    outside_cache >>

\* *cache = Some((now, new_count)); Ok(new_count): the guard is dropped.
StoreSnapshot(c) ==
    /\ counting[c].pc = "store"
    /\ count_lock = c
    /\ active_user_count' = [last_updated |-> counting[c].now,
                             count |-> counting[c].got[1]]
    /\ counting' = [counting EXCEPT
                       ![c].pc = "returned",
                       ![c].wrote = Some(active_user_count'),
                       ![c].result = counting[c].got]
    /\ count_lock' = Unlocked
    /\ UNCHANGED << now, db_queries,
                    outside_cache >>

\* Time passes.
CacheTick ==
    /\ now < MaxCacheTicks * CacheStep
    /\ now' = now + CacheStep
    /\ UNCHANGED << active_user_count, counting, count_lock, db_queries,
                    outside_cache >>

CacheInit ==
    /\ NoGateway
    /\ stream = << >>
    /\ \E count \in ActiveUserCounts :
          active_user_count = [last_updated |-> 0, count |-> count]
    /\ counting = [c \in Callers |-> IdleCaller]
    /\ count_lock = Unlocked
    /\ db_queries = << >>
    /\ NoClient
    /\ NoBody

CacheNext ==
    \/ \E c \in Callers : BeginCount(c)
    \/ \E c \in Callers : ReadSnapshot(c)
    \/ \E c \in Callers : LockForWriting(c)
    \/ \E c \in Callers : QueryStore(c)
    \/ \E c \in Callers : StoreSnapshot(c)
    \/ CacheTick

SpecCache == CacheInit /\ [][CacheNext]_vars

\* The executor polls every call that can take a step, the lock is handed to
\* a waiter once it is free, and every query of the store is answered.
CacheFairness ==
    \A c \in Callers :
        /\ WF_vars(ReadSnapshot(c))
        /\ WF_vars(LockForWriting(c))
        /\ WF_vars(QueryStore(c))
        /\ WF_vars(StoreSnapshot(c))

SpecCacheLive == CacheInit /\ [][CacheNext]_vars /\ CacheFairness

\* ------------------------------------------------ the client's token cache

\* What the client does not touch.
outside_client ==
    << now, config, usage, active_user_count, req, stream, task, trace,
       yielded, recorded, reported, served, probe, counting, count_lock, db_queries,
       inner_stream, polled, body >>

\* The responses the client may get from the gateway: a status and whether
\* the x-zed-llm-token-expired header is present.
GatewayResponses == [status : {200, 401, 500}, expired : BOOLEAN]

\* response.status().is_success()
is_success(response) == response.status \in 200..299

\* A retry rule that forgets it has retried.
should_refresh_every_time(did_retry, response) == response.expired

\* A retry rule that takes every rejection for an expiry.
should_refresh_without_header(did_retry, response) == ~did_retry

\* !did_retry && response.headers().get(EXPIRED_LLM_TOKEN_HEADER_NAME).is_some()
should_refresh(did_retry, response) == ~did_retry /\ response.expired

\* A fetch that keeps a token that is already cached.
fetch_keeping_cached(lock, response_token) ==
    [lock |-> IF lock = None THEN Some(response_token) ELSE lock,
     returned |-> response_token]

\* A fetch that returns the token and leaves the cache alone.
fetch_without_storing(lock, response_token) ==
    [lock |-> lock, returned |-> response_token]

\* fetch: *lock = Some(response.token.clone()); Ok(response.token.clone())
fetch(lock, response_token) ==
    [lock |-> Some(response_token), returned |-> response_token]

\* An acquire that reads the cache under a lock it shares with the others.
AcquireToken_shared_read(k) ==
    /\ completions[k].pc = "acquire"
    /\ IF llm_api_token # None
       THEN /\ token_lock = Unlocked
            /\ completions' = [completions EXCEPT
                                  ![k].pc = "send",
                                  ![k].acquire_saw = llm_api_token,
                                  ![k].token = llm_api_token[1]]
       ELSE completions' = [completions EXCEPT
                               ![k].pc = "upgrade",
                               ![k].acquire_saw = llm_api_token,
                               ![k].fetching = "acquire"]
    /\ UNCHANGED << llm_api_token, token_lock, fetches, outside_client >>

\* An acquire that fetches whether or not a token is cached.
AcquireToken_always_fetching(k) ==
    /\ completions[k].pc = "acquire"
    /\ token_lock = Unlocked
    /\ token_lock' = k
    /\ completions' = [completions EXCEPT
                          ![k].pc = "upgrade",
                          ![k].acquire_saw = llm_api_token,
                          ![k].fetching = "acquire"]
    /\ UNCHANGED << llm_api_token, fetches, outside_client >>

\* acquire: the upgradable read lock is taken, which one caller holds at a
\* time; a cached token is returned, and for an empty cache the lock is
\* upgraded for the fetch.
AcquireToken(k) ==
    /\ completions[k].pc = "acquire"
    /\ token_lock = Unlocked
    /\ IF llm_api_token # None
       THEN /\ completions' = [completions EXCEPT
                                  ![k].pc = "send",
                                  ![k].acquire_saw = llm_api_token,
                                  ![k].token = llm_api_token[1]]
            /\ UNCHANGED token_lock
       ELSE /\ completions' = [completions EXCEPT
                                  ![k].pc = "upgrade",
                                  ![k].acquire_saw = llm_api_token,
                                  ![k].fetching = "acquire"]
            /\ token_lock' = k
    /\ UNCHANGED << llm_api_token, fetches, outside_client >>

\* RwLockUpgradableReadGuard::upgrade(lock).await: the caller that holds the
\* upgradable read lock waits for the plain readers, of which there are
\* none, and holds the lock for writing.
UpgradeLock(k) ==
    /\ completions[k].pc = "upgrade"
    /\ token_lock \in {Unlocked, k}
    /\ token_lock' = k
    /\ completions' = [completions EXCEPT ![k].pc = "fetch"]
    /\ UNCHANGED << llm_api_token, fetches, outside_client >>

\* A refresh that takes the cached token when it is not the rejected one.
RefreshToken_reusing_fresh_token(k) ==
    /\ completions[k].pc = "refresh"
    /\ token_lock = Unlocked
    /\ IF llm_api_token # None /\ llm_api_token # Some(completions[k].token)
       THEN /\ completions' = [completions EXCEPT
                                  ![k].pc = "send",
                                  ![k].token = llm_api_token[1]]
            /\ UNCHANGED token_lock
       ELSE /\ completions' = [completions EXCEPT
                                  ![k].pc = "fetch",
                                  ![k].fetching = "refresh"]
            /\ token_lock' = k
    /\ UNCHANGED << llm_api_token, fetches, outside_client >>

\* refresh: self.0.write().await, then fetch.
RefreshToken(k) ==
    /\ completions[k].pc = "refresh"
    /\ token_lock = Unlocked
    /\ token_lock' = k
    /\ completions' = [completions EXCEPT
                          ![k].pc = "fetch",
                          ![k].fetching = "refresh"]
    /\ UNCHANGED << llm_api_token, fetches, outside_client >>

\* A fetch that empties the cache when the control plane fails.
FetchToken_clearing_on_failure(k) ==
    /\ completions[k].pc = "fetch"
    /\ token_lock = k
    /\ \E ok \in BOOLEAN :
          LET response_token == Len(fetches) + 1
              fetched == fetch(llm_api_token, response_token)
              entry == [by |-> k, kind |-> completions[k].fetching, ok |-> ok,
                        token |-> response_token,
                        held |-> completions[k].token,
                        cached |-> llm_api_token,
                        after |-> IF ok THEN fetched.lock ELSE llm_api_token]
          IN  /\ fetches' = Append(fetches, entry)
              /\ IF ok
                 THEN /\ llm_api_token' = fetched.lock
                      /\ completions' = [completions EXCEPT
                                            ![k].pc = "send",
                                            ![k].token = fetched.returned]
                 ELSE /\ llm_api_token' = None
                      /\ completions' = [completions EXCEPT ![k].pc = "failed"]
    /\ token_lock' = Unlocked
    /\ UNCHANGED outside_client

\* A fetch that returns the error without giving up the write lock.
FetchToken_keeping_lock_on_error(k) ==
    /\ completions[k].pc = "fetch"
    /\ token_lock = k
    /\ \E ok \in BOOLEAN :
          LET response_token == Len(fetches) + 1
              fetched == fetch(llm_api_token, response_token)
              entry == [by |-> k, kind |-> completions[k].fetching, ok |-> ok,
                        token |-> response_token,
                        held |-> completions[k].token,
                        cached |-> llm_api_token,
                        after |-> IF ok THEN fetched.lock ELSE llm_api_token]
          IN  /\ fetches' = Append(fetches, entry)
              /\ IF ok
                 THEN /\ llm_api_token' = fetched.lock
                      /\ completions' = [completions EXCEPT
                                            ![k].pc = "send",
                                            ![k].token = fetched.returned]
                 ELSE /\ UNCHANGED llm_api_token
                      /\ completions' = [completions EXCEPT ![k].pc = "failed"]
    /\ token_lock' = IF llm_api_token' = llm_api_token THEN k ELSE Unlocked
    /\ UNCHANGED outside_client

\* fetch: client.request(proto::GetLlmToken {}).await? under the write lock;
\* the control plane mints a new token for every request it answers.  The
\* guard is dropped on return, with the token or with the error.
FetchToken(k) ==
    /\ completions[k].pc = "fetch"
    /\ token_lock = k
    /\ \E ok \in BOOLEAN :
          LET response_token == Len(fetches) + 1
              fetched == fetch(llm_api_token, response_token)
              entry == [by |-> k, kind |-> completions[k].fetching, ok |-> ok,
                        token |-> response_token,
                        held |-> completions[k].token,
                        cached |-> llm_api_token,
                        after |-> IF ok THEN fetched.lock ELSE llm_api_token]
          IN  /\ fetches' = Append(fetches, entry)
              /\ IF ok
                 THEN /\ llm_api_token' = fetched.lock
                      /\ completions' = [completions EXCEPT
                                            ![k].pc = "send",
                                            ![k].token = fetched.returned]
                 ELSE /\ UNCHANGED llm_api_token
                      /\ completions' = [completions EXCEPT ![k].pc = "failed"]
    /\ token_lock' = Unlocked
    /\ UNCHANGED outside_client

\* One turn of the loop: the request is sent with the token and the response
\* is a success, an expiry to refresh for, or an error.
SendRequest(k) ==
    /\ completions[k].pc = "send"
    /\ \/ \E response \in GatewayResponses :
             completions' =
                 [completions EXCEPT
                     ![k].sent = Append(@, completions[k].token),
                     ![k].responses = Append(@, response),
                     ![k].pc =
                         IF is_success(response) THEN "done"
                         ELSE IF should_refresh(completions[k].did_retry,
                                                response)
                              THEN "refresh" ELSE "failed",
                     ![k].did_retry =
                         IF ~is_success(response)
                            /\ should_refresh(completions[k].did_retry, response)
                         THEN TRUE ELSE @,
                     ![k].refreshes =
                         IF ~is_success(response)
                            /\ should_refresh(completions[k].did_retry, response)
                         THEN @ + 1 ELSE @]
       \/ completions' = [completions EXCEPT
                              ![k].sent = Append(@, completions[k].token),
                              ![k].pc = "failed"]
    /\ UNCHANGED << llm_api_token, token_lock, fetches, outside_client >>

ClientInit ==
    /\ NoGateway
    /\ stream = << >>
    /\ active_user_count = NoSnapshot
    /\ NoCallers
    /\ llm_api_token = None
    /\ token_lock = Unlocked
    /\ fetches = << >>
    /\ completions = [k \in Clients |-> [IdleCompletion EXCEPT !.pc = "acquire"]]
    /\ NoBody

ClientNext ==
    \/ \E k \in Clients : AcquireToken(k)
    \/ \E k \in Clients : UpgradeLock(k)
    \/ \E k \in Clients : RefreshToken(k)
    \/ \E k \in Clients : FetchToken(k)
    \/ \E k \in Clients : SendRequest(k)

SpecClient == ClientInit /\ [][ClientNext]_vars

\* The executor polls every call that can take a step, the lock is handed to
\* a waiter once it is free, and the control plane and the gateway answer
\* every request, with a response or with an error.
ClientFairness ==
    \A k \in Clients :
        WF_vars(\/ AcquireToken(k)
                \/ UpgradeLock(k)
                \/ RefreshToken(k)
                \/ FetchToken(k)
                \/ SendRequest(k))

SpecClientLive == ClientInit /\ [][ClientNext]_vars /\ ClientFairness

\* ------------------------------------------------------ the response body

\* What poll_next does not touch.
outside_body ==
    << now, config, usage, active_user_count, req, task, trace, yielded,
       recorded, reported, served, probe, counting, count_lock, db_queries,
       llm_api_token, token_lock, fetches, completions >>

Newline == "\n"

\* The texts an event may carry; a text may hold a line break.
FrameTexts == {<< >>, << "a" >>, << Newline >>, << "a", Newline, "b" >>}

\* The Anthropic events of one response body.
FrameEvents ==
    {[type |-> "message_start", input_tokens |-> Some(2),
      output_tokens |-> Some(1), text |-> << >>],
     [type |-> "message_delta", input_tokens |-> None,
      output_tokens |-> Some(3), text |-> << >>]}
    \cup {[type |-> "content_block_delta", input_tokens |-> None,
            output_tokens |-> None, text |-> text] : text \in FrameTexts}

\* A string of a JSON document: a line break is written as the two
\* characters backslash and n.
RECURSIVE json_string(_)
json_string(text) ==
    IF text = << >>
    THEN << >>
    ELSE (IF Head(text) = Newline THEN << "\\", "n" >> ELSE << Head(text) >>)
             \o json_string(Tail(text))

\* serde_json::to_vec(&chunk): the event as one compact JSON object.
to_vec(event) ==
    << "{", event.type, ":" >> \o json_string(event.text) \o << "}" >>

\* A poll_next that hands the frame on as the adapter yielded it.
frame_bytes_unterminated(bytes) == bytes

\* poll_next: bytes.push(b'\n')
frame_bytes(bytes) == Append(bytes, Newline)

\* poll_next on Poll::Ready(Some(Ok(..))): the frame is handed on with its
\* newline and its token counts are added.
ForwardFrame ==
    /\ inner_stream = "open"
    /\ Len(polled) < MaxFrames
    /\ \E event \in FrameEvents :
          /\ polled' = Append(polled, to_vec(event))
          /\ body' = Append(body, frame_bytes(to_vec(event)))
          /\ stream' = [r \in Conns |->
                           poll_next_ok(stream[r],
                                        anthropic_token_counts(event))]
    /\ UNCHANGED << inner_stream, outside_body >>

\* poll_next on Poll::Ready(Some(Err(e))): the error is handed on.
ForwardError ==
    /\ inner_stream = "open"
    /\ inner_stream' = "failed"
    /\ UNCHANGED << polled, body, stream, outside_body >>

\* poll_next on Poll::Ready(None).
ForwardEnd ==
    /\ inner_stream = "open"
    /\ inner_stream' = "ended"
    /\ UNCHANGED << polled, body, stream, outside_body >>

FramesInit ==
    /\ NoGateway
    /\ stream = [r \in Conns |-> new_stream]
    /\ active_user_count = NoSnapshot
    /\ NoCallers
    /\ NoClient
    /\ inner_stream = "open"
    /\ polled = << >>
    /\ body = << >>

FramesNext ==
    \/ ForwardFrame
    \/ ForwardError
    \/ ForwardEnd

SpecFrames == FramesInit /\ [][FramesNext]_vars

\* ------------------------------------------- completions that overlap in time

\* The connections a burst of requests arrives on, one request each.
BurstConns == 1..NumBurst

\* A request of a user who is not staff for claude-3-5-sonnet-20240620, as
\* perform_completion holds it on entering check_usage_limit: the token was
\* validated, the name normalized and access authorized.
AuthorizedReq ==
    [IdleReq EXCEPT
        !.pc = "check_usage_limit",
        !.validation = "Ok",
        !.claims = [user_id |-> 1, is_staff |-> FALSE],
        !.name = Claude35Sonnet \o << "-20240620" >>,
        !.provider = "anthropic",
        !.model = Claude35Sonnet]

\* The requests of a burst have all been authorized and none has been
\* checked.
BurstInit ==
    /\ now = 0
    /\ config \in Configs
    /\ usage = [k \in UsageKeys |-> ZeroRow]
    /\ \E count \in ActiveUserCounts :
          active_user_count = [last_updated |-> 0, count |-> count]
    /\ req = [r \in BurstConns |-> AuthorizedReq]
    /\ stream = [r \in BurstConns |-> new_stream]
    /\ task = [r \in BurstConns |-> NoTask]
    /\ trace = [r \in BurstConns |-> << "validate", "authorize" >>]
    /\ yielded = [r \in BurstConns |-> EmptyBag]
    /\ recorded = [r \in BurstConns |-> << >>]
    /\ reported = [r \in BurstConns |-> << >>]
    /\ served = 0
    /\ probe = NoProbe
    /\ SideIdle

\* check_usage_limit is entered: the model descriptor is resolved.
ResolveModel(r) ==
    /\ req[r].pc = "check_usage_limit"
    /\ IF db_model(req[r].provider, req[r].model) = None
       THEN Respond(r, HttpError(404, NoHeaders, "unknown model"),
                    << "db.model" >>)
       ELSE /\ req' = [req EXCEPT ![r].pc = "get_usage"]
            /\ trace' = [trace EXCEPT ![r] = @ \o << "db.model" >>]
    /\ UNCHANGED << now, config, usage, active_user_count, stream, task,
                    yielded, recorded, reported, served, probe, side >>

\* The burst lies within one minute bucket and under one active-user
\* snapshot: the clock does not move, and each completion is dropped by its
\* client at some point after the upstream stream was opened.
BurstNext ==
    \/ \E r \in BurstConns : ResolveModel(r)
    \/ \E r \in BurstConns : GetUsage(r)
    \/ \E r \in BurstConns : CheckUsageLimit(r)
    \/ \E r \in BurstConns : OpenUpstream(r)
    \/ \E r \in BurstConns : Drop(r)
    \/ \E r \in BurstConns : RunAccounting(r)

SpecBurst == BurstInit /\ [][BurstNext]_vars

\* ------------------------------------------------ the model name alone

\* What normalize_model_name does not touch.
outside_name ==
    << now, config, usage, active_user_count, req, stream, task, trace,
       yielded, recorded, reported, served, side >>

\* The non-empty prefixes of a name.
Prefixes(name) == { SubSeq(name, 1, n) : n \in 1..Len(name) }

\* What a name sent by a client may begin with: an entry of a table or the
\* beginning of one, or a name no table knows.
NameStems ==
    UNION { UNION { Prefixes(prefixes(provider)[i]) :
                       i \in DOMAIN prefixes(provider) } :
               provider \in Providers }
    \cup {Gemini15Pro, Qwen27b, << "claude-2" >>}

\* What may follow: a version, or the segments by which one entry of a
\* table extends another.
NameSegments == {"-20240620", "o", "-mini"}

NameSuffixes == UNION { [1..n -> NameSegments] : n \in 0..MaxSuffix }

ClientNames == { stem \o suffix : stem \in NameStems, suffix \in NameSuffixes }

\* A call of normalize_model_name is about to be made.
NamesInit ==
    /\ now = 0
    /\ config \in Configs
    /\ usage = << >>
    /\ active_user_count = NoSnapshot
    /\ req = << >>
    /\ stream = << >>
    /\ task = << >>
    /\ trace = << >>
    /\ yielded = << >>
    /\ recorded = << >>
    /\ reported = << >>
    /\ served = 0
    /\ SideIdle
    /\ \E provider \in Providers, name \in ClientNames :
          probe = [phase |-> "name", provider |-> provider, name |-> name,
                   model |-> << >>, again |-> << >>]

\* normalize_model_name is applied to the input.
NormalizeName ==
    /\ probe.phase = "name"
    /\ probe' = [probe EXCEPT
                    !.phase = "normalized",
                    !.model = normalize_model_name(probe.provider, probe.name)]
    /\ UNCHANGED outside_name

\* normalize_model_name is applied to what it returned.
NormalizeAgain ==
    /\ probe.phase = "normalized"
    /\ probe' = [probe EXCEPT
                    !.phase = "renormalized",
                    !.again = normalize_model_name(probe.provider, probe.model)]
    /\ UNCHANGED outside_name

NamesNext ==
    \/ NormalizeName
    \/ NormalizeAgain

SpecNames == NamesInit /\ [][NamesNext]_vars

\* ------------------------------------------------- the quota engine alone

\* check_usage_limit as a function of what it reads: the model descriptor,
\* the usage row, the active-user snapshot and the claims.
ProbeModels ==
    { ModelCaps(rpm, tpm, tpd) : rpm \in {1, 60}, tpm \in {0, 5}, tpd \in {0, 5} }

ProbeUsages ==
    [requests_this_minute : {0, 1, 2, 6, 7, 8, 15, 16, 60, 61},
     tokens_this_minute : {0, 1, 2, 3, 5, 6},
     tokens_this_day : {0, 1, 2, 3, 5, 6}]

ProbeUserCounts == {0, 1, 2, 4, 10}

ProbeActiveUsers ==
    [users_in_recent_minutes : ProbeUserCounts,
     users_in_recent_days : ProbeUserCounts]

ProbeInit ==
    /\ now = 0
    /\ config \in Configs
    /\ usage = [k \in UsageKeys |-> ZeroRow]
    /\ active_user_count =
          [last_updated |-> 0,
           count |-> [users_in_recent_minutes |-> 0, users_in_recent_days |-> 0]]
    /\ req = [r \in Conns |-> IdleReq]
    /\ stream = [r \in Conns |-> new_stream]
    /\ task = [r \in Conns |-> NoTask]
    /\ trace = [r \in Conns |-> << >>]
    /\ yielded = [r \in Conns |-> EmptyBag]
    /\ recorded = [r \in Conns |-> << >>]
    /\ reported = [r \in Conns |-> << >>]
    /\ served = 0
    /\ SideIdle
    /\ \E model \in ProbeModels, row \in ProbeUsages,
          active_users \in ProbeActiveUsers, is_staff \in BOOLEAN :
          probe = [phase |-> "input", model |-> model, usage |-> row,
                   active_users |-> active_users,
                   claims |-> [user_id |-> 1, is_staff |-> is_staff],
                   limits |-> per_user_limits(ModelCaps(0, 0, 0), active_users),
                   verdict |-> QuotaOk]

\* check_usage_limit is applied to the input.
ProbeCheck ==
    /\ probe.phase = "input"
    /\ probe' = [probe EXCEPT
                    !.phase = "checked",
                    !.limits = per_user_limits(probe.model, probe.active_users),
                    !.verdict = check_usage_limit(probe.model, probe.usage,
                                                  probe.active_users,
                                                  probe.claims)]
    /\ UNCHANGED << now, config, usage, active_user_count, req, stream, task,
                    trace, yielded, recorded, reported, served, side >>

ProbeNext == ProbeCheck

SpecQuota == ProbeInit /\ [][ProbeNext]_vars

\* ============================================================== properties

Called(r, call) == \E i \in 1..Len(trace[r]) : trace[r][i] = call

\* A TokenCountingStream was constructed for the request the connection
\* carries: the completion reached Streaming.
StreamConstructed(r) == Called(r, "TokenCountingStream")

\* The component-wise sum of the token counts of a bag of events.
RECURSIVE SumCounts(_, _)
SumCounts(provider, events) ==
    IF events = EmptyBag
    THEN << 0, 0 >>
    ELSE LET event == CHOOSE e \in BagToSet(events) : TRUE
             head == token_counts(provider, event)
             rest == SumCounts(provider, events (-) SetToBag({event}))
         IN  << head[1] + rest[1], head[2] + rest[2] >>

\* C1: for a completion that reached Streaming, record_usage is invoked
\* exactly once, however the stream ended (upstream end, upstream error,
\* client disconnect): never before the body is dropped, never twice, and
\* once the detached task has run exactly one call has been made.
C1_RecordUsageExactlyOnce ==
    \A r \in Conns :
        /\ Len(recorded[r]) <= 1
        /\ StreamConstructed(r) =>
              /\ req[r].pc \in {"streaming", "finished", "spawned", "done"}
              /\ req[r].pc \in {"streaming", "finished", "spawned"}
                    => Len(recorded[r]) = 0
              /\ req[r].pc = "done"
                    => /\ Len(recorded[r]) = 1
                       /\ req[r].ended \in {"end", "error", "disconnect"}

\* A client went away after one frame and the accounting ran once.
C1_Witness ==
    \E r \in Conns :
        /\ req[r].pc = "done"
        /\ req[r].ended = "disconnect"
        /\ BagCardinality(yielded[r]) = 1
        /\ Len(recorded[r]) = 1

\* C2: the (input_tokens, output_tokens) passed to record_usage are the
\* component-wise sums of the counts of exactly the frames poll_next yielded
\* as Ok before the stream was dropped; with no frame they are (0, 0).
C2_RecordedTotalsAreFrameSums ==
    \A r \in Conns :
        LET sums == SumCounts(req[r].provider, yielded[r])
        IN  /\ req[r].pc \in {"spawned", "done"} =>
                  /\ task[r].input_token_count = sums[1]
                  /\ task[r].output_token_count = sums[2]
            /\ \A i \in 1..Len(recorded[r]) :
                  /\ recorded[r][i].args.input_token_count = sums[1]
                  /\ recorded[r][i].args.output_token_count = sums[2]
            /\ (yielded[r] = EmptyBag /\ Len(recorded[r]) = 1) =>
                  /\ recorded[r][1].args.input_token_count = 0
                  /\ recorded[r][1].args.output_token_count = 0

\* A client went away after two frames that carried tokens of both kinds.
C2_Witness ==
    \E r \in Conns :
        /\ req[r].ended = "disconnect"
        /\ BagCardinality(yielded[r]) = 2
        /\ Len(recorded[r]) = 1
        /\ recorded[r][1].args.input_token_count = 2
        /\ recorded[r][1].args.output_token_count = 4

\* C3: record_usage is never invoked for a request that ends before
\* Streaming: while no TokenCountingStream was constructed for a request no
\* record_usage call is made for it and no accounting task exists for it,
\* and every step that changes the usage store is the accounting of a
\* completion whose stream was constructed.
C3_NoUsageBeforeStreaming ==
    [][ /\ usage' # usage =>
              \E r \in Conns : /\ StreamConstructed(r)
                               /\ recorded'[r] # recorded[r]
        /\ \A r \in Conns :
              ~StreamConstructed(r)' =>
                  /\ recorded'[r] = << >>
                  /\ task'[r] = NoTask
                  /\ req'[r].pc \notin {"spawned", "done"} ]_vars

\* The upstream answered the opening call with a rate-limit error: the
\* client got 429 and the usage store holds nothing.
C3_Witness ==
    \E r \in Conns :
        /\ req[r].pc = "responded"
        /\ req[r].response.status = 429
        /\ req[r].response.body = "Upstream Anthropic rate limit exceeded."
        /\ recorded[r] = << >>
        /\ usage = [k \in UsageKeys |-> ZeroRow]

\* The calls that precede the opening of the upstream stream.
CallsBeforeUpstream ==
    << "validate", "authorize", "db.model", "get_usage",
       "get_active_user_count", "admitted", "stream_completion" >>

\* C4: the upstream call is made only after the token was validated, access
\* authorized and the quota check passed, in that order; for an expired or
\* invalid token nothing is called but the validation.
C4_UpstreamAfterChecks ==
    \A r \in Conns :
        /\ Called(r, "stream_completion") =>
              /\ req[r].validation = "Ok"
              /\ Len(trace[r]) >= Len(CallsBeforeUpstream)
              /\ SubSeq(trace[r], 1, Len(CallsBeforeUpstream))
                    = CallsBeforeUpstream
        /\ req[r].validation \in {"Expired", "Invalid"} =>
              /\ trace[r] = << "validate" >>
              /\ req[r].pc = "responded"

\* The second request of a connection got as far as the upstream, which
\* was opened for it.
C4_Witness ==
    \E r \in Conns :
        /\ served = 2
        /\ req[r].pc = "streaming"
        /\ Called(r, "stream_completion")

\* C5: the answer is 401 with x-zed-llm-token-expired: true exactly when the
\* validation failed with Expired; any other failed validation is a 401
\* without the header, and a valid token never yields the header.
C5_ExpiredHeaderIffExpired ==
    \A r \in Conns :
        /\ (req[r].response.headers = ExpiredHeaders)
              <=> (req[r].validation = "Expired")
        /\ req[r].validation = "Expired" => req[r].response.status = 401
        /\ req[r].validation = "Invalid" =>
              /\ req[r].response.status = 401
              /\ req[r].response.headers = NoHeaders
        /\ req[r].validation = "Ok" => req[r].response.headers = NoHeaders

\* An expired token was answered 401 with the header.
C5_Witness ==
    \E r \in Conns :
        /\ req[r].validation = "Expired"
        /\ req[r].response.status = 401
        /\ req[r].response.headers = ExpiredHeaders

\* C6: for a request whose claims have is_staff = true check_usage_limit
\* never returns the rate-limit rejection, whatever the usage row, the caps
\* and the snapshot it read; and a staff completion that reached Streaming
\* has record_usage invoked for it, under its own key, once its accounting
\* task has run.
C6_StaffBypassStillAccounted ==
    \A r \in Conns :
        (req[r].validation = "Ok" /\ req[r].claims.is_staff) =>
            /\ ~Called(r, "rejected")
            /\ req[r].response.resource = ""
            /\ req[r].response.body # "Rate limit exceeded. Maximum {} reached."
            /\ (StreamConstructed(r) /\ req[r].pc = "done") =>
                  /\ Len(recorded[r]) = 1
                  /\ recorded[r][1].args.user_id = as_i32(req[r].claims.user_id)
                  /\ recorded[r][1].args.provider = req[r].provider
                  /\ recorded[r][1].args.model = req[r].model

\* A member of staff whose row was over the per-user request limit when it
\* was read has streamed and been accounted for.
C6_Witness ==
    \E r \in Conns :
        /\ req[r].claims.is_staff
        /\ req[r].pc = "done"
        /\ Len(recorded[r]) = 1
        /\ req[r].usage.requests_this_minute >
              per_user_limits(db_model(req[r].provider, req[r].model)[1],
                              req[r].active_users).per_user_max_requests_per_minute

\* The usage, the limit and the name of each resource of the probe, in the
\* order of the checks.
ProbeUsage ==
    << probe.usage.requests_this_minute, probe.usage.tokens_this_minute,
       probe.usage.tokens_this_day >>

ProbeLimit ==
    << probe.limits.per_user_max_requests_per_minute,
       probe.limits.per_user_max_tokens_per_minute,
       probe.limits.per_user_max_tokens_per_day >>

ResourceName ==
    << "requests per minute", "tokens per minute", "tokens per day" >>

\* C7: the comparison is strict.  For a user who is not staff, a resource
\* whose usage equals its per-user limit is not what a rejection names, and
\* the request is admitted when every resource is within its limit; usage of
\* the limit plus one is rejected, naming that resource unless a resource
\* checked before it is over its limit too.  With a cap of 60 requests per
\* minute and 4 active users the limit is 15: usage 15 passes and usage 16
\* is rejected with "requests per minute".
C7_StrictComparison ==
    (probe.phase = "checked" /\ ~probe.claims.is_staff) =>
        /\ \A i \in 1..3 :
              /\ ProbeUsage[i] = ProbeLimit[i] =>
                    probe.verdict.resource # ResourceName[i]
              /\ ProbeUsage[i] = ProbeLimit[i] + 1 =>
                    /\ ~probe.verdict.ok
                    /\ (\A j \in 1..(i - 1) : ProbeUsage[j] <= ProbeLimit[j])
                          => probe.verdict.resource = ResourceName[i]
        /\ (\A i \in 1..3 : ProbeUsage[i] <= ProbeLimit[i]) => probe.verdict.ok
        /\ (/\ probe.model.max_requests_per_minute = 60
            /\ probe.active_users.users_in_recent_minutes = 4) =>
              /\ ProbeLimit[1] = 15
              /\ ProbeUsage[1] = 15 =>
                    probe.verdict.resource # "requests per minute"
              /\ ProbeUsage[1] = 16 =>
                    probe.verdict = TooManyRequests("requests per minute")

\* Cap 60 with 4 active users and 16 requests used: rejected.
C7_Witness ==
    /\ probe.phase = "checked"
    /\ ~probe.claims.is_staff
    /\ probe.model.max_requests_per_minute = 60
    /\ probe.active_users.users_in_recent_minutes = 4
    /\ probe.usage.requests_this_minute = 16
    /\ probe.verdict = TooManyRequests("requests per minute")

\* quotient is the floor of cap / divisor.
IsFloorOf(quotient, cap, divisor) ==
    /\ quotient * divisor <= cap
    /\ cap < (quotient + 1) * divisor

\* C8: each per-user limit is the floor of the model's cap divided by
\* max(divisor, 1), the divisor being users_in_recent_minutes for the two
\* per-minute resources and users_in_recent_days for tokens per day; the
\* per-minute limits are the same for every day count and the per-day limit
\* the same for every minute count.
C8_LimitsDivideByTheirOwnCount ==
    probe.phase = "checked" =>
        LET minutes == Max(probe.active_users.users_in_recent_minutes, 1)
            days == Max(probe.active_users.users_in_recent_days, 1)
        IN  /\ IsFloorOf(probe.limits.per_user_max_requests_per_minute,
                         probe.model.max_requests_per_minute, minutes)
            /\ IsFloorOf(probe.limits.per_user_max_tokens_per_minute,
                         probe.model.max_tokens_per_minute, minutes)
            /\ IsFloorOf(probe.limits.per_user_max_tokens_per_day,
                         probe.model.max_tokens_per_day, days)
            /\ \A other \in ProbeUserCounts :
                  LET other_days ==
                          per_user_limits(probe.model,
                              [probe.active_users EXCEPT
                                  !.users_in_recent_days = other])
                      other_minutes ==
                          per_user_limits(probe.model,
                              [probe.active_users EXCEPT
                                  !.users_in_recent_minutes = other])
                  IN  /\ other_days.per_user_max_requests_per_minute
                            = probe.limits.per_user_max_requests_per_minute
                      /\ other_days.per_user_max_tokens_per_minute
                            = probe.limits.per_user_max_tokens_per_minute
                      /\ other_minutes.per_user_max_tokens_per_day
                            = probe.limits.per_user_max_tokens_per_day

\* 4 users in the recent minutes and 10 in the recent days: 60 requests per
\* minute give 15, 5 tokens per minute give 1 and 5 tokens per day give 0.
C8_Witness ==
    /\ probe.phase = "checked"
    /\ probe.active_users.users_in_recent_minutes = 4
    /\ probe.active_users.users_in_recent_days = 10
    /\ probe.model = ModelCaps(60, 5, 5)
    /\ probe.limits.per_user_max_requests_per_minute = 15
    /\ probe.limits.per_user_max_tokens_per_minute = 1
    /\ probe.limits.per_user_max_tokens_per_day = 0

\* C9: a count of 0 users is clamped to a divisor of 1, so the per-user
\* limit is the whole cap, and no limit is ever the result of a division by
\* zero.
C9_ZeroUsersClampedToOne ==
    probe.phase = "checked" =>
        /\ \A i \in 1..3 : ProbeLimit[i] # DivisionByZeroPanic /\ ProbeLimit[i] >= 0
        /\ probe.active_users.users_in_recent_minutes = 0 =>
              /\ probe.limits.per_user_max_requests_per_minute
                    = probe.model.max_requests_per_minute
              /\ probe.limits.per_user_max_tokens_per_minute
                    = probe.model.max_tokens_per_minute
        /\ probe.active_users.users_in_recent_days = 0 =>
              probe.limits.per_user_max_tokens_per_day
                  = probe.model.max_tokens_per_day

\* A snapshot of no users at all: the limits are the caps.
C9_Witness ==
    /\ probe.phase = "checked"
    /\ probe.active_users.users_in_recent_minutes = 0
    /\ probe.active_users.users_in_recent_days = 0
    /\ probe.model = ModelCaps(60, 5, 5)
    /\ ProbeLimit = << 60, 5, 5 >>

\* The limits check_usage_limit computed for the request of a connection.
LimitsOf(r) ==
    per_user_limits(db_model(req[r].provider, req[r].model)[1],
                    req[r].active_users)

\* The usage row of the request of a connection.
RowOf(r) ==
    usage[<< as_i32(req[r].claims.user_id), req[r].provider, req[r].model >>]

\* C10: requests follow one another, each completion accounted for before
\* the next request is checked.  A request of a user who is not staff is
\* rejected with "requests per minute" exactly when the
\* requests_this_minute it read exceeds the per-user limit of the snapshot
\* it was checked under, and is admitted when the token counters are within
\* their limits too; and the accounting of a completion, run in the minute
\* in which its row was read, leaves requests_this_minute one above what
\* the request read, which is what the next request of that minute reads.
C10_SequentialRequestsReachLimit ==
    \A r \in Conns :
        (req[r].validation = "Ok" /\ ~req[r].claims.is_staff) =>
            /\ (Called(r, "admitted") \/ Called(r, "rejected")) =>
                  LET limits == LimitsOf(r)
                      over ==
                          req[r].usage.requests_this_minute
                              > limits.per_user_max_requests_per_minute
                  IN  /\ over <=>
                            req[r].response
                                = rate_limit_response("requests per minute")
                      /\ (/\ ~over
                          /\ req[r].usage.tokens_this_minute
                                <= limits.per_user_max_tokens_per_minute
                          /\ req[r].usage.tokens_this_day
                                <= limits.per_user_max_tokens_per_day)
                            => Called(r, "admitted")
            /\ req[r].pc = "done" =>
                  /\ Len(recorded[r]) = 1
                  /\ (/\ recorded[r][1].ok
                      /\ minute_of(recorded[r][1].at) = minute_of(req[r].read_at))
                        => /\ RowOf(r).minute = minute_of(req[r].read_at)
                           /\ RowOf(r).requests_this_minute
                                 = req[r].usage.requests_this_minute + 1

\* The second request of a minute read requests_this_minute one above the
\* limit, left by the completion before it, and was rejected.
C10_Witness ==
    \E r \in Conns :
        /\ served = 2
        /\ Called(r, "rejected")
        /\ ~req[r].claims.is_staff
        /\ req[r].usage.requests_this_minute
              = LimitsOf(r).per_user_max_requests_per_minute + 1
        /\ RowOf(r).requests_this_minute = req[r].usage.requests_this_minute
        /\ RowOf(r).minute = minute_of(req[r].read_at)
        /\ req[r].response = rate_limit_response("requests per minute")

\* C11: under any interleaving of concurrent get_active_user_count callers
\* the store's active-user query runs at most once per cache duration: a
\* caller that found the snapshot stale while another caller was recomputing
\* does not run a recomputation of its own, so no query runs for a caller for
\* whom the cached snapshot is fresh, and two successful queries are asked
\* for times at least one cache duration apart.
C11_SingleFlightRecomputation ==
    /\ \A i \in 1..Len(db_queries) :
          db_queries[i].now - db_queries[i].cached_at
              >= ACTIVE_USER_COUNT_CACHE_DURATION
    /\ \A i, j \in 1..Len(db_queries) :
          (i < j /\ db_queries[i].ok /\ db_queries[j].ok) =>
              \/ db_queries[j].now - db_queries[i].now
                     >= ACTIVE_USER_COUNT_CACHE_DURATION
              \/ db_queries[i].now - db_queries[j].now
                     >= ACTIVE_USER_COUNT_CACHE_DURATION

\* C12: a call returns the cached snapshot, without querying the store, when
\* the snapshot it read is younger than 30 seconds at the time the call took;
\* at an age of 30 seconds or more it takes the write lock and queries the
\* store for that time, and when the query answers it stores the answer with
\* that time as the snapshot and returns it.
C12_FreshForThirtySeconds ==
    \A c \in Callers :
        LET call == counting[c]
            age == call.now - call.seen.last_updated
        IN  /\ call.pc \in {"query", "store"} =>
                  /\ count_lock = c
                  /\ age >= ACTIVE_USER_COUNT_CACHE_DURATION
            /\ (call.pc = "returned" /\ age < ACTIVE_USER_COUNT_CACHE_DURATION) =>
                  /\ ~call.queried
                  /\ call.wrote = None
                  /\ call.result = Some(call.seen.count)
            /\ (call.pc = "returned" /\ age >= ACTIVE_USER_COUNT_CACHE_DURATION) =>
                  /\ call.queried
                  /\ \E i \in 1..Len(db_queries) :
                        db_queries[i].by = c /\ db_queries[i].now = call.now
                  /\ call.got # None =>
                        /\ call.wrote = Some([last_updated |-> call.now,
                                              count |-> call.got[1]])
                        /\ call.result = call.got
                  /\ call.got = None => call.wrote = None /\ call.result = None

\* A call found a snapshot of exactly 30 seconds, queried the store and
\* stored the answer.
C12_Witness ==
    \E c \in Callers :
        /\ counting[c].pc = "returned"
        /\ counting[c].now - counting[c].seen.last_updated
              = ACTIVE_USER_COUNT_CACHE_DURATION
        /\ counting[c].wrote # None
        /\ active_user_count.last_updated = counting[c].now

\* The fetches a call has made for its acquire or for its refresh.
FetchesOf(k, kind) ==
    { i \in 1..Len(fetches) : fetches[i].by = k /\ fetches[i].kind = kind }

\* The call's acquire has returned a token.
Acquired(k) == Len(completions[k].sent) > 0 \/ completions[k].pc = "send"

\* The token the call's acquire returned.
AcquiredToken(k) ==
    IF Len(completions[k].sent) > 0 THEN completions[k].sent[1]
    ELSE completions[k].token

\* The call's refresh, if it made one, has returned.
RefreshReturned(k) ==
    completions[k].refreshes = 1 /\ completions[k].pc \notin {"refresh", "fetch"}

ExpiredResponse == [status |-> 401, expired |-> TRUE]

PlainUnauthorized == [status |-> 401, expired |-> FALSE]

\* C13: within one perform_llm_completion call refresh is called at most
\* once and at most two requests are sent; when the request retried with the
\* refreshed token is rejected again, with the expiry signal or without, the
\* call fails and neither refreshes nor sends again.
C13_RefreshAtMostOncePerCall ==
    \A k \in Clients :
        LET call == completions[k]
        IN  /\ call.refreshes <= 1
            /\ Cardinality(FetchesOf(k, "refresh")) <= 1
            /\ Len(call.sent) <= 2
            /\ Len(call.sent) = 2 =>
                  /\ call.refreshes = 1
                  /\ \E i \in FetchesOf(k, "refresh") :
                        fetches[i].ok /\ fetches[i].token = call.sent[2]
            /\ (Len(call.responses) = 2 /\ ~is_success(call.responses[2])) =>
                  call.pc = "failed"

\* A call was told twice that its token expired and failed after one refresh.
C13_Witness ==
    \E k \in Clients :
        /\ completions[k].responses = << ExpiredResponse, ExpiredResponse >>
        /\ completions[k].pc = "failed"
        /\ completions[k].refreshes = 1
        /\ Cardinality(FetchesOf(k, "refresh")) = 1

\* C14: refresh is called only after a response of status 401 that carries
\* the x-zed-llm-token-expired header; a response of any other status leads
\* to no refresh and to no second request, whatever its headers.
C14_RefreshOnlyOnExpired401 ==
    \A k \in Clients :
        LET call == completions[k]
        IN  (Len(call.responses) >= 1 /\ call.responses[1].status # 401) =>
                /\ call.refreshes = 0
                /\ call.pc # "refresh"
                /\ Len(call.sent) <= 1

\* C15: a 401 without the expiry header on the first attempt ends the call
\* with an error: the step that receives it leaves the cached token and the
\* control plane alone, and the call never refreshes nor sends again.
C15_PlainUnauthorizedSurfaced ==
    [][\A k \in Clients :
          LET before == completions[k]
              after == completions'[k]
          IN  (Len(after.responses) >= 1
                  /\ after.responses[1] = PlainUnauthorized) =>
                  /\ after.pc = "failed"
                  /\ after.refreshes = 0
                  /\ Len(after.sent) = 1
                  /\ FetchesOf(k, "refresh") = {}
                  /\ Len(before.responses) = 0 =>
                        /\ llm_api_token' = llm_api_token
                        /\ fetches' = fetches
                        /\ token_lock' = token_lock]_vars

\* A call got a 401 without the header and failed, the token still cached.
C15_Witness ==
    \E k \in Clients :
        /\ completions[k].responses = << PlainUnauthorized >>
        /\ completions[k].pc = "failed"
        /\ llm_api_token = Some(completions[k].sent[1])

\* C16: when the callers acquire on an empty cache together and no fetch
\* fails, the control plane is asked once and every caller's acquire returns
\* the token of that one fetch.
C16_OneFetchForABurst ==
    /\ (\A i \in 1..Len(fetches) : fetches[i].kind = "acquire" => fetches[i].ok)
          => Cardinality({ i \in 1..Len(fetches) :
                             fetches[i].kind = "acquire" }) <= 1
    /\ (\A i \in 1..Len(fetches) : fetches[i].kind = "acquire" /\ fetches[i].ok)
          => /\ Len(fetches) <= 1
             /\ \A k \in Clients :
                   Acquired(k) => /\ Len(fetches) = 1
                                  /\ AcquiredToken(k) = fetches[1].token
                                  /\ llm_api_token = Some(fetches[1].token)

\* Every caller's acquire has returned, one of them fetched and another
\* found that token cached.
C16_Witness ==
    /\ Len(fetches) = 1
    /\ \A k \in Clients : Acquired(k) /\ completions[k].refreshes = 0
    /\ \E k \in Clients : completions[k].acquire_saw # None
    /\ \E k \in Clients :
          completions[k].acquire_saw = None /\ fetches[1].by = k

\* C17 as claimed: the requests rejected for one token cause one fetch, no
\* two refreshes fetch for the same rejected token.
C17_OneFetchPerRejectedToken ==
    \A i, j \in 1..Len(fetches) :
        (fetches[i].kind = "refresh" /\ fetches[j].kind = "refresh"
            /\ fetches[i].held = fetches[j].held) => i = j

\* C17: every request rejected with the expiry signal on its first attempt
\* calls refresh once, and every refresh fetches: the requests rejected for
\* one token cause one fetch each, under the write lock one at a time, and
\* each request is retried with the token its own refresh fetched.
C17_EveryRejectionFetches ==
    /\ \A k \in Clients :
          /\ Cardinality(FetchesOf(k, "refresh")) <= 1
          /\ RefreshReturned(k) =>
                \E i \in FetchesOf(k, "refresh") :
                    /\ fetches[i].held = completions[k].sent[1]
                    /\ fetches[i].ok =>
                          /\ AcquiredToken(k) # fetches[i].token
                          /\ Len(completions[k].sent) = 2 =>
                                completions[k].sent[2] = fetches[i].token
                          /\ Len(completions[k].sent) = 1 =>
                                completions[k].token = fetches[i].token
    /\ \A i, j \in 1..Len(fetches) :
          (i # j /\ fetches[i].kind = "refresh" /\ fetches[j].kind = "refresh")
              => fetches[i].by # fetches[j].by
    /\ \A k \in Clients : completions[k].pc = "fetch" => token_lock = k

\* Two requests were rejected for the same token and each one's refresh
\* fetched a token of its own.
C17_Witness ==
    \E i, j \in 1..Len(fetches) :
        /\ i < j
        /\ fetches[i].kind = "refresh" /\ fetches[j].kind = "refresh"
        /\ fetches[i].ok /\ fetches[j].ok
        /\ fetches[i].held = fetches[j].held
        /\ fetches[i].by # fetches[j].by
        /\ Len(completions[fetches[i].by].sent) = 2
        /\ Len(completions[fetches[j].by].sent) = 2

\* C18: acquire returns the cached token without asking the control plane
\* whenever a token is cached; for an empty cache, and only then, it fetches
\* one token, which it stores in the cache and returns.
C18_AcquireFetchesOnlyWhenEmpty ==
    \A k \in Clients :
        LET call == completions[k]
            own == FetchesOf(k, "acquire")
        IN  /\ call.acquire_saw # None =>
                  /\ own = {}
                  /\ Acquired(k)
                  /\ AcquiredToken(k) = call.acquire_saw[1]
            /\ own # {} => call.acquire_saw = None
            /\ (call.acquire_saw = None
                   /\ call.pc \notin {"idle", "acquire", "upgrade", "fetch"}) =>
                  /\ Cardinality(own) = 1
                  /\ \A i \in own :
                        /\ fetches[i].cached = None
                        /\ fetches[i].ok =>
                              /\ fetches[i].after = Some(fetches[i].token)
                              /\ Acquired(k)
                              /\ AcquiredToken(k) = fetches[i].token
                        /\ ~fetches[i].ok =>
                              call.pc = "failed" /\ call.sent = << >>

\* One call fetched for the empty cache and another was handed that token
\* from the cache.
C18_Witness ==
    \E k1, k2 \in Clients :
        /\ completions[k1].acquire_saw = None
        /\ FetchesOf(k1, "acquire") # {}
        /\ completions[k2].acquire_saw # None
        /\ completions[k2].pc = "send"
        /\ \E i \in FetchesOf(k1, "acquire") :
              completions[k2].token = fetches[i].token

\* C19: a refresh always asks the control plane, also when a token is
\* cached; when the fetch succeeds the cache holds the token fetched and the
\* refresh returns that token.
C19_RefreshAlwaysFetches ==
    /\ \A k \in Clients :
          RefreshReturned(k) => FetchesOf(k, "refresh") # {}
    /\ \A i \in 1..Len(fetches) :
          (fetches[i].kind = "refresh" /\ fetches[i].ok) =>
              LET call == completions[fetches[i].by]
              IN  /\ fetches[i].after = Some(fetches[i].token)
                  /\ fetches[i].token # fetches[i].held
                  /\ IF Len(call.sent) = 2
                     THEN call.sent[2] = fetches[i].token
                     ELSE call.token = fetches[i].token
    /\ (Len(fetches) > 0 /\ fetches[Len(fetches)].ok) =>
          llm_api_token = Some(fetches[Len(fetches)].token)

\* A refresh fetched while a token was cached and the cache holds the new one.
C19_Witness ==
    /\ Len(fetches) > 0
    /\ fetches[Len(fetches)].kind = "refresh"
    /\ fetches[Len(fetches)].ok
    /\ fetches[Len(fetches)].cached # None
    /\ llm_api_token = Some(fetches[Len(fetches)].token)
    /\ llm_api_token # fetches[Len(fetches)].cached

\* The chunks of a body, one after the other, as the client reads them.
RECURSIVE Concatenated(_)
Concatenated(chunks) ==
    IF chunks = << >> THEN << >>
    ELSE Head(chunks) \o Concatenated(Tail(chunks))

\* The lines of a byte string: what stands before each newline.
RECURSIVE SplitOnNewline(_, _)
SplitOnNewline(bytes, line) ==
    IF bytes = << >>
    THEN IF line = << >> THEN << >> ELSE << line >>
    ELSE IF Head(bytes) = Newline
         THEN << line >> \o SplitOnNewline(Tail(bytes), << >>)
         ELSE SplitOnNewline(Tail(bytes), Append(line, Head(bytes)))

\* C20: the i-th chunk handed to the client is the i-th frame the adapter
\* yielded followed by one newline: none is dropped, doubled, reordered or
\* merged, and the body split on newlines is the sequence of frames.
C20_FramesForwardedInOrder ==
    /\ Len(body) = Len(polled)
    /\ \A i \in 1..Len(body) : body[i] = polled[i] \o << Newline >>
    /\ SplitOnNewline(Concatenated(body), << >>) = polled

\* Two different frames were forwarded, the first with a line break in its
\* text.
C20_Witness ==
    /\ Len(body) = 2
    /\ polled[1] # polled[2]
    /\ polled[1] = << "{", "content_block_delta", ":", "a", "\\", "n", "b", "}" >>
    /\ inner_stream = "ended"

\* C21: when the upstream yields an error after some frames, the error is
\* the item the body hands on (the body is finished by it, with no frame
\* added), the running counters are what they were before it, and the
\* accounting that follows the drop records the totals of the frames
\* yielded before the error.
C21_ErrorKeepsPartialTotals ==
    [][ \A r \in Conns :
          /\ (req[r].pc = "streaming" /\ req'[r].ended = "error") =>
                /\ req'[r].pc = "finished"
                /\ stream'[r] = stream[r]
                /\ yielded'[r] = yielded[r]
                /\ recorded'[r] = << >>
          /\ req'[r].ended = "error" =>
                LET sums == SumCounts(req'[r].provider, yielded'[r])
                IN  /\ stream'[r].input_tokens = sums[1]
                    /\ stream'[r].output_tokens = sums[2]
                    /\ req'[r].pc = "done" => Len(recorded'[r]) = 1
                    /\ \A i \in 1..Len(recorded'[r]) :
                          /\ recorded'[r][i].args.input_token_count = sums[1]
                          /\ recorded'[r][i].args.output_token_count = sums[2] ]_vars

\* The upstream failed after one message_start frame, and the accounting
\* recorded that frame's two input tokens and one output token.
C21_Witness ==
    \E r \in Conns :
        /\ req[r].ended = "error"
        /\ req[r].pc = "done"
        /\ BagCardinality(yielded[r]) = 1
        /\ Len(recorded[r]) = 1
        /\ recorded[r][1].ok
        /\ recorded[r][1].args.input_token_count = 2
        /\ recorded[r][1].args.output_token_count = 1

\* C22: for every provider, when the upstream answers the opening call with
\* a rate-limit error the client receives 429, and any other opening error
\* yields a 5xx; in neither case is a TokenCountingStream constructed.
C22_UpstreamRateLimitSurfaced ==
    \A r \in Conns :
        /\ req[r].opened = "rate_limited" =>
              /\ req[r].response.status = 429
              /\ ~StreamConstructed(r)
        /\ req[r].opened = "other" =>
              /\ req[r].response.status \in 500..599
              /\ ~StreamConstructed(r)

\* The entries of a provider's table that a name starts with.
MatchingPrefixes(provider, name) ==
    { prefixes(provider)[i] : i \in DOMAIN prefixes(provider) }
        \cap Prefixes(name)

\* C23: normalize_model_name returns the longest entry of the provider's
\* table that the name starts with: an entry the name starts with, of which
\* every other such entry is a prefix (so for OpenAI a name starting with
\* gpt-4o-mini maps to gpt-4o-mini, not to gpt-4o or gpt-4); and it returns
\* the name unchanged when no entry is a prefix, which is always the case
\* for Google and Zed.
C23_LongestKnownPrefix ==
    probe.phase = "normalized" =>
        LET matching == MatchingPrefixes(probe.provider, probe.name)
        IN  /\ matching # {} =>
                  /\ probe.model \in matching
                  /\ \A entry \in matching : IsPrefix(entry, probe.model)
            /\ matching = {} => probe.model = probe.name
            /\ probe.provider \in {"google", "zed"} => probe.model = probe.name
            /\ (probe.provider = "open_ai" /\ IsPrefix(Gpt4oMini, probe.name)) =>
                  probe.model = Gpt4oMini

\* A dated gpt-4o-mini, which starts with three entries of the OpenAI table,
\* was normalized to gpt-4o-mini.
C23_Witness ==
    /\ probe.phase = "normalized"
    /\ probe.provider = "open_ai"
    /\ probe.name = Gpt4oMini \o << "-20240620" >>
    /\ Cardinality(MatchingPrefixes(probe.provider, probe.name)) = 3
    /\ probe.model = Gpt4oMini

\* C24: authorization, the quota check and the record_usage call of one
\* completion all use the same (provider, normalized model name) pair: the
\* name the handler holds once access has been authorized is the normalized
\* one, the descriptor and the usage row of the quota check are those of
\* that pair, and so are the arguments of record_usage; when an entry of the
\* table is a prefix of the client's name, usage is recorded under an entry
\* (claude-3-5-sonnet-20240620 is checked and recorded as claude-3-5-sonnet).
C24_OneNormalizedNameThroughout ==
    \A r \in Conns :
        LET pair == << req[r].provider, req[r].model >>
            key == << as_i32(req[r].claims.user_id), pair[1], pair[2] >>
            matching == MatchingPrefixes(req[r].provider, req[r].name)
        IN  /\ Called(r, "authorize") =>
                  /\ matching # {} => req[r].model \in matching
                  /\ matching = {} => req[r].model = req[r].name
            /\ Called(r, "get_usage") => pair \in KnownModels
            /\ (Called(r, "get_active_user_count") /\ recorded[r] = << >>) =>
                  req[r].usage = get_usage(usage[key], req[r].read_at)
            /\ req[r].pc \in {"spawned", "done"} =>
                  << task[r].provider, task[r].model >> = pair
            /\ \A i \in 1..Len(recorded[r]) :
                  /\ << recorded[r][i].args.provider,
                        recorded[r][i].args.model >> = pair
                  /\ matching # {} => recorded[r][i].args.model \in matching
                  /\ req[r].name = Claude35Sonnet \o << "-20240620" >> =>
                        /\ recorded[r][i].args.model = Claude35Sonnet
                        /\ recorded[r][i].args.model # req[r].name

\* A completion asked for as claude-3-5-sonnet-20240620 was recorded as
\* claude-3-5-sonnet.
C24_Witness ==
    \E r \in Conns :
        /\ req[r].name = Claude35Sonnet \o << "-20240620" >>
        /\ Called(r, "authorize")
        /\ Called(r, "admitted")
        /\ Len(recorded[r]) = 1
        /\ recorded[r][1].ok
        /\ recorded[r][1].args.model = Claude35Sonnet

\* The row of the usage store a completion's accounting writes to.
AccountedKey(r) == << task[r].user_id, task[r].provider, task[r].model >>

\* C25: at most one telemetry row is emitted per completion, and only after
\* that completion's record_usage call returned successfully, carrying what
\* the call was made with and the post-update counters it returned; when
\* record_usage fails no row is emitted, and a sink failure changes neither
\* the recorded usage nor the response.
C25_OneRowAfterSuccessfulRecord ==
    \A r \in Conns :
        /\ Len(reported[r]) <= 1
        /\ reported[r] # << >> =>
              /\ Len(recorded[r]) = 1
              /\ recorded[r][1].ok
              /\ config.clickhouse_client
              /\ LET row == reported[r][1].row
                     call == recorded[r][1]
                     after == get_usage(usage[AccountedKey(r)], call.at)
                 IN  /\ row.user_id = call.args.user_id
                     /\ row.provider = call.args.provider
                     /\ row.model = call.args.model
                     /\ row.input_token_count = call.args.input_token_count
                     /\ row.output_token_count = call.args.output_token_count
                     /\ row.requests_this_minute = after.requests_this_minute
                     /\ row.tokens_this_minute = after.tokens_this_minute
                     /\ row.tokens_this_day = after.tokens_this_day
                     /\ row.requests_this_minute >= 1
                     /\ row.tokens_this_day
                           >= row.input_token_count + row.output_token_count
              /\ req[r].response.status = 200
        /\ (recorded[r] # << >> /\ ~recorded[r][1].ok) => reported[r] = << >>
        /\ (recorded[r] # << >> /\ recorded[r][1].ok) =>
              /\ config.clickhouse_client => Len(reported[r]) = 1
              /\ usage[AccountedKey(r)] # ZeroRow

\* The sink failed to take the row of a completion of three tokens on a row
\* that held one request: the row carries two requests, and so does the
\* store.
C25_Witness ==
    \E r \in Conns :
        /\ req[r].pc = "done"
        /\ Len(reported[r]) = 1
        /\ ~reported[r][1].delivered
        /\ reported[r][1].row.input_token_count = 2
        /\ reported[r][1].row.output_token_count = 1
        /\ reported[r][1].row.requests_this_minute = 2
        /\ usage[AccountedKey(r)].requests_this_minute = 2
        /\ req[r].response.status = 200

\* The sum, over the message_start and message_delta events of a bag, of the
\* usage field they carry (input_tokens or output_tokens); an event that
\* does not carry the field adds nothing.
RECURSIVE UsageCarried(_, _)
UsageCarried(events, field) ==
    IF events = EmptyBag
    THEN 0
    ELSE LET event == CHOOSE e \in BagToSet(events) : TRUE
             carried ==
                 IF /\ event.type \in {"message_start", "message_delta"}
                    /\ event[field] # None
                 THEN event[field][1]
                 ELSE 0
         IN  carried + UsageCarried(events (-) SetToBag({event}), field)

\* C26: for the Anthropic adapter the running totals are the sums of
\* usage.input_tokens and usage.output_tokens over the message_start and
\* message_delta events yielded so far, an absent field counting as 0;
\* events of any other kind contribute (0, 0).
C26_AnthropicUsageEvents ==
    \A r \in Conns :
        (req[r].provider = "anthropic" /\ StreamConstructed(r)) =>
            /\ stream[r].input_tokens
                  = UsageCarried(yielded[r], "input_tokens")
            /\ stream[r].output_tokens
                  = UsageCarried(yielded[r], "output_tokens")

\* A message_delta without input_tokens and a content_block_delta were
\* yielded: the totals are (0, 3).
C26_Witness ==
    \E r \in Conns :
        /\ req[r].provider = "anthropic"
        /\ req[r].pc = "streaming"
        /\ BagCardinality(yielded[r]) = 2
        /\ \E e \in BagToSet(yielded[r]) :
              e.type = "message_delta" /\ e.input_tokens = None
        /\ \E e \in BagToSet(yielded[r]) : e.type = "content_block_delta"
        /\ stream[r] = [input_tokens |-> 0, output_tokens |-> 3]

\* The policy denied the request the connection carries: the handler
\* returned from the authorization call.
PolicyDenied(r) ==
    /\ req[r].pc = "responded"
    /\ trace[r] = << "validate", "authorize" >>

\* What check_usage_limit would answer the request from the store and the
\* snapshot as they are.
WouldBeOverQuota(r) ==
    /\ << req[r].provider, req[r].model >> \in KnownModels
    /\ ~check_usage_limit(
            db_model(req[r].provider, req[r].model)[1],
            get_usage(usage[<< as_i32(req[r].claims.user_id), req[r].provider,
                               req[r].model >>], now),
            active_user_count.count, req[r].claims).ok

\* C27: authorization is evaluated before the quota check.  A policy-denied
\* request is answered 403, over quota or not, and nothing is called for it
\* after the authorization: no descriptor lookup, no usage read, no
\* active-user lookup; a request that got as far as any of these was
\* authorized first and is not answered 403; and a 429 is given only to
\* a request that was authorized.
C27_AuthorizationBeforeQuota ==
    \A r \in Conns :
        /\ PolicyDenied(r) =>
              /\ req[r].response.status = 403
              /\ req[r].response.resource = ""
        /\ req[r].response.status = 403 => PolicyDenied(r)
        /\ \A i \in 1..Len(trace[r]) :
              trace[r][i] \in {"db.model", "get_usage", "get_active_user_count",
                               "rejected", "admitted"} =>
                  /\ i > 2
                  /\ trace[r][2] = "authorize"
                  /\ req[r].response.status # 403
        /\ req[r].response.status = 429 => Called(r, "authorize")

\* A user who is not staff and whose row is over the per-user request
\* limit was denied by the policy and answered 403.
C27_Witness ==
    \E r \in Conns :
        /\ PolicyDenied(r)
        /\ ~req[r].claims.is_staff
        /\ WouldBeOverQuota(r)
        /\ req[r].response.status = 403

\* The resources of the probe whose usage is over the per-user limit.
ProbeExceeded == { i \in 1..3 : ProbeUsage[i] > ProbeLimit[i] }

\* C28: when a user who is not staff exceeds several limits at once, the
\* rejection names the first exceeded resource in the order requests per
\* minute, tokens per minute, tokens per day: a resource is named only if
\* it is exceeded and every resource before it is within its limit.
C28_FirstExceededResourceNamed ==
    (probe.phase = "checked" /\ ~probe.claims.is_staff) =>
        /\ ProbeExceeded # {} =>
              /\ ~probe.verdict.ok
              /\ \E i \in ProbeExceeded :
                    /\ probe.verdict.resource = ResourceName[i]
                    /\ \A j \in ProbeExceeded : i <= j
        /\ \A i \in 1..3 :
              probe.verdict.resource = ResourceName[i] =>
                  /\ i \in ProbeExceeded
                  /\ \A j \in 1..(i - 1) : j \notin ProbeExceeded

\* Both token limits are exceeded and the request limit is not: the
\* rejection names the tokens per minute.
C28_Witness ==
    /\ probe.phase = "checked"
    /\ ~probe.claims.is_staff
    /\ ProbeExceeded = {2, 3}
    /\ probe.verdict = TooManyRequests("tokens per minute")

\* check_usage_limit was entered for a (provider, model) the usage store
\* holds no descriptor of.
UnknownModelChecked(r) ==
    /\ Called(r, "db.model")
    /\ << req[r].provider, req[r].model >> \notin KnownModels

\* C29: check_usage_limit resolves the model descriptor first.  For an
\* unknown (provider, model) it fails with a 4xx right after the lookup of
\* the descriptor, before any usage read or active-user lookup, whatever
\* the claims, staff included; and the usage is read only for a model whose
\* descriptor was resolved before.
C29_UnknownModelFailsFirst ==
    \A r \in Conns :
        /\ UnknownModelChecked(r) =>
              /\ req[r].pc = "responded"
              /\ req[r].response.status \in 400..499
              /\ trace[r] = << "validate", "authorize", "db.model" >>
              /\ req[r].usage = IdleReq.usage
              /\ req[r].active_users = IdleReq.active_users
        /\ \A i \in 1..Len(trace[r]) :
              trace[r][i] \in {"get_usage", "get_active_user_count"} =>
                  /\ \E j \in 1..(i - 1) : trace[r][j] = "db.model"
                  /\ << req[r].provider, req[r].model >> \in KnownModels

\* A member of staff asked for a model the store does not know (claude-2)
\* while the row of the store was busy: answered 404 after the lookup of
\* the descriptor.
C29_Witness ==
    \E r \in Conns :
        /\ UnknownModelChecked(r)
        /\ req[r].claims.is_staff
        /\ req[r].name = << "claude-2" >>
        /\ req[r].response.status = 404
        /\ \E k \in UsageKeys : usage[k] # ZeroRow

\* The completions admitted in the minute bucket of r's check under the
\* active-user snapshot r was checked against.
AdmittedTogether(r) ==
    {q \in BurstConns :
        /\ Called(q, "admitted")
        /\ minute_of(req[q].read_at) = minute_of(req[r].read_at)
        /\ req[q].active_users = req[r].active_users}

\* The requests-per-minute limit r was checked against.
RequestLimit(r) == LimitsOf(r).per_user_max_requests_per_minute

\* C30 as stated: for a user who is not staff, the completions admitted in
\* one minute bucket under one active-user snapshot number at most the
\* requests-per-minute limit plus one, overlapping completions included.
C30_AdmittedAtMostLimitPlusOne ==
    \A r \in BurstConns :
        Called(r, "admitted") =>
            Cardinality(AdmittedTogether(r)) <= RequestLimit(r) + 1

\* C30 (amended): every completion check_usage_limit admits for a user who
\* is not staff read a requests_this_minute no greater than the limit, so
\* the completions admitted in one minute bucket under one snapshot that
\* each read a different count, as they do when each is recorded before the
\* next is checked, number at most the limit plus one.  Completions checked
\* while earlier ones are not yet recorded read the same count and are
\* admitted besides.
C30_AdmittedReadAtMostLimit ==
    \A r \in BurstConns :
        Called(r, "admitted") =>
            /\ req[r].usage.requests_this_minute <= RequestLimit(r)
            /\ Cardinality({req[q].usage.requests_this_minute :
                                q \in AdmittedTogether(r)})
                  <= RequestLimit(r) + 1

\* Two completions are admitted on the same count read, the second while
\* the first is still streaming and not recorded.
C30_Witness ==
    \E r, q \in BurstConns :
        /\ r # q
        /\ q \in AdmittedTogether(r)
        /\ Called(r, "admitted")
        /\ req[q].usage.requests_this_minute
              = req[r].usage.requests_this_minute
        /\ req[q].pc = "streaming"
        /\ recorded[q] = << >>
        /\ req[r].pc = "open"

\* C31: the timestamp stored with the active-user snapshot never decreases
\* from one update of the cache to the next, however the concurrent callers
\* of get_active_user_count interleave.
C31_CapturedAtNeverDecreases ==
    [][active_user_count'.last_updated >= active_user_count.last_updated]_vars

\* C32: when the store's query fails during a recomputation, the call
\* returns the error and not the stale snapshot, the cached snapshot and its
\* timestamp stay as they were, and the write lock is released.
C32_FailedQueryLeavesCache ==
    [][\A c \in Callers :
          (/\ counting[c].pc = "query"
           /\ counting'[c].pc = "returned") =>
              /\ count_lock = c
              /\ count_lock' = Unlocked
              /\ active_user_count' = active_user_count
              /\ counting'[c].result = None
              /\ counting'[c].wrote = None
              /\ ~db_queries'[Len(db_queries')].ok]_vars

\* A caller's query failed and it returned the error; another caller then
\* took the write lock, queried the store and stored a snapshot.
C32_Witness ==
    \E c, d \in Callers :
        /\ c # d
        /\ counting[c].pc = "returned"
        /\ counting[c].queried
        /\ counting[c].result = None
        /\ counting[d].wrote = Some(active_user_count)
        /\ \E i, j \in 1..Len(db_queries) :
              /\ i < j
              /\ db_queries[i].by = c /\ ~db_queries[i].ok
              /\ db_queries[j].by = d /\ db_queries[j].ok

\* C33: a successful record_usage counts the completion's request and tokens
\* in the buckets current when the detached task runs; when that is a later
\* minute than the one its quota check read, the counters start again from
\* this completion alone and nothing is added to the earlier minute.
C33_RecordedInFinalizationBucket ==
    [][\A r \in Conns :
          (/\ Len(recorded'[r]) = Len(recorded[r]) + 1
           /\ recorded'[r][Len(recorded'[r])].ok) =>
              LET key == AccountedKey(r)
                  done == recorded'[r][Len(recorded'[r])]
                  tokens == done.args.input_token_count
                                + done.args.output_token_count
                  before == get_usage(usage[key], now)
              IN  /\ done.at = now
                  /\ usage'[key].minute = minute_of(now)
                  /\ usage'[key].day = day_of(now)
                  /\ usage'[key].requests_this_minute
                        = before.requests_this_minute + 1
                  /\ usage'[key].tokens_this_minute
                        = before.tokens_this_minute + tokens
                  /\ minute_of(now) # minute_of(req[r].read_at) =>
                        /\ get_usage(usage'[key], req[r].read_at)
                              .requests_this_minute = 0
                        /\ get_usage(usage'[key], req[r].read_at)
                              .tokens_this_minute = 0
                        /\ usage[key].minute = minute_of(req[r].read_at) =>
                              /\ usage'[key].requests_this_minute = 1
                              /\ usage'[key].tokens_this_minute = tokens]_vars

\* A completion whose check read the row in minute 0, holding an earlier
\* completion, was recorded with tokens in minute 1 as that minute's first.
C33_Witness ==
    \E r \in Conns :
        /\ req[r].pc = "done"
        /\ Len(recorded[r]) = 1
        /\ recorded[r][1].ok
        /\ minute_of(req[r].read_at) = 0
        /\ req[r].usage.requests_this_minute = 1
        /\ minute_of(recorded[r][1].at) = 1
        /\ recorded[r][1].args.input_token_count > 0
        /\ usage[AccountedKey(r)].minute = 1
        /\ usage[AccountedKey(r)].requests_this_minute = 1

\* C34: when the control-plane fetch fails, the acquire or refresh that made
\* it returns the error, the write lock is released and the token cache is
\* as it was: empty for a failed acquire, holding the old token for a failed
\* refresh; an acquire that finds a token cached hands out that token.
C34_FailedFetchLeavesCache ==
    [][/\ (/\ Len(fetches') = Len(fetches) + 1
           /\ ~fetches'[Len(fetches')].ok) =>
              LET failed == fetches'[Len(fetches')]
              IN  /\ llm_api_token' = llm_api_token
                  /\ token_lock = failed.by
                  /\ token_lock' = Unlocked
                  /\ completions'[failed.by].pc = "failed"
                  /\ completions'[failed.by].sent
                        = completions[failed.by].sent
                  /\ failed.kind = "acquire" => llm_api_token' = None
                  /\ failed.kind = "refresh" =>
                        /\ llm_api_token' # None
                        /\ failed.cached = llm_api_token'
       /\ \A k \in Clients :
              (/\ completions[k].pc = "acquire"
               /\ completions'[k].pc # "acquire"
               /\ llm_api_token # None) =>
                  /\ completions'[k].pc = "send"
                  /\ completions'[k].token = llm_api_token[1]
                  /\ fetches' = fetches
                  /\ llm_api_token' = llm_api_token]_vars

\* A refresh failed and its call with it; the cache still holds the token
\* that was rejected, and another call is about to acquire.
C34_Witness ==
    \E k, j \in Clients :
        /\ k # j
        /\ completions[k].pc = "failed"
        /\ completions[k].refreshes = 1
        /\ Len(fetches) = 2
        /\ fetches[2].by = k
        /\ fetches[2].kind = "refresh"
        /\ ~fetches[2].ok
        /\ llm_api_token = Some(completions[k].sent[1])
        /\ completions[j].pc = "acquire"

\* The fetches the control plane has answered with a token.
SuccessfulFetches == { i \in 1..Len(fetches) : fetches[i].ok }

\* The token of the successful fetch that completed last.
LatestFetchedToken ==
    fetches[CHOOSE i \in SuccessfulFetches :
                \A j \in SuccessfulFetches : j <= i].token

\* C35: the token cache is empty until a fetch has succeeded and never
\* again after (the log of fetches only grows); under any interleaving of
\* acquire and refresh calls it holds the token of the successful fetch that
\* completed last.
C35_CacheHoldsLatestFetch ==
    IF SuccessfulFetches = {}
    THEN llm_api_token = None
    ELSE llm_api_token = Some(LatestFetchedToken)

\* An acquire and a refresh have both fetched, and the cache holds the
\* token the refresh fetched.
C35_Witness ==
    /\ Len(fetches) >= 2
    /\ \E i, j \in SuccessfulFetches :
          /\ i < j
          /\ fetches[i].kind = "acquire"
          /\ fetches[j].kind = "refresh"
          /\ \A n \in SuccessfulFetches : n <= j
          /\ llm_api_token = Some(fetches[j].token)
          /\ fetches[j].token # fetches[i].token

\* C36: every call of get_active_user_count that was begun eventually
\* returns, whatever the number of concurrent callers, given that the
\* store's queries terminate.
C36_EveryCallReturns ==
    \A c \in Callers :
        (counting[c].pc # "idle") ~> (counting[c].pc = "returned")

\* One caller holds the write lock with its query under way while another,
\* which found the snapshot stale as well, waits for the lock.
C36_Witness ==
    \E c, d \in Callers :
        /\ c # d
        /\ counting[c].pc = "query"
        /\ count_lock = c
        /\ counting[d].pc = "write"

\* The call has returned: with the response, or with an error.
Returned(k) == completions[k].pc \in {"done", "failed"}

\* C37: every perform_llm_completion call returns, whatever the gateway
\* answers (a call that has returned stays so, so in the end all have); it
\* enters acquire once, at the start, sends at most two
\* requests, and returns the first successful response or else an error.
C37_CompletionTerminates ==
    /\ <>(\A k \in Clients : Returned(k))
    /\ [][\A k \in Clients :
              /\ completions'[k].pc = "acquire" => completions[k].pc = "acquire"
              /\ completions'[k].acquire_saw # completions[k].acquire_saw =>
                    completions[k].pc = "acquire"
              /\ Returned(k) => completions'[k] = completions[k]
              /\ Len(completions'[k].sent) <= 2
              /\ completions'[k].pc = "done" =>
                    LET got == completions'[k].responses
                    IN  /\ Len(got) >= 1
                        /\ is_success(got[Len(got)])
                        /\ \A i \in 1..(Len(got) - 1) : ~is_success(got[i])
              /\ completions'[k].pc = "failed" =>
                    \A i \in 1..Len(completions'[k].responses) :
                        ~is_success(completions'[k].responses[i])]_vars

\* A call was told its token had expired, refreshed, sent a second request
\* and returned that one's successful response.
C37_Witness ==
    \E k \in Clients :
        /\ completions[k].pc = "done"
        /\ Len(completions[k].sent) = 2
        /\ completions[k].responses[1] = ExpiredResponse
        /\ is_success(completions[k].responses[2])

\* C38: a user who is not staff and whose three counters are all 0 is
\* admitted whatever the model's caps and the active-user snapshot, also
\* when a cap is smaller than the active-user count and the per-user limit
\* is 0; against a limit of 0, usage of 1 is rejected.
C38_ZeroUsageAlwaysAdmitted ==
    (probe.phase = "checked" /\ ~probe.claims.is_staff) =>
        /\ ProbeUsage = << 0, 0, 0 >> => probe.verdict = QuotaOk
        /\ \A i \in 1..3 :
              (ProbeLimit[i] = 0 /\ ProbeUsage[i] = 1) => ~probe.verdict.ok
        /\ (/\ ProbeLimit[1] = 0
            /\ ProbeUsage[1] = 1) =>
              probe.verdict = TooManyRequests("requests per minute")

\* A cap of 1 request per minute shared by 2 active users, and no tokens
\* allowed at all: every per-user limit is 0, and the user with no usage is
\* admitted.
C38_Witness ==
    /\ probe.phase = "checked"
    /\ ~probe.claims.is_staff
    /\ probe.model = ModelCaps(1, 0, 0)
    /\ probe.active_users.users_in_recent_minutes = 2
    /\ ProbeLimit = << 0, 0, 0 >>
    /\ ProbeUsage = << 0, 0, 0 >>
    /\ probe.verdict.ok

\* C39: normalize_model_name is idempotent: applied to a name it returned,
\* for the same provider, it returns that name.
C39_NormalizeIsIdempotent ==
    probe.phase = "renormalized" => probe.again = probe.model

\* gpt-4o-mini with a date was normalized to gpt-4o-mini, an entry that
\* itself starts with two shorter entries, and normalizing it again left it.
C39_Witness ==
    /\ probe.phase = "renormalized"
    /\ probe.provider = "open_ai"
    /\ probe.name = Gpt4oMini \o << "-20240620" >>
    /\ probe.model = Gpt4oMini
    /\ probe.again = Gpt4oMini
    /\ Cardinality(MatchingPrefixes(probe.provider, probe.model)) = 3

\* The usage record a token with the given user_id reads and updates for the
\* model of a connection's request.
RecordOfUser(user_id, r) == << as_i32(user_id), req[r].provider, req[r].model >>

\* C40: two tokens with distinct user_id never read or update the same
\* usage record: the record a request's quota check reads, and the record
\* its accounting updates, is the record of no other user.
C40_DistinctUsersDistinctRecords ==
    \A r \in Conns :
        \A other \in Users \ {req[r].claims.user_id} :
            /\ (req[r].validation = "Ok" /\ Called(r, "get_usage")) =>
                  RecordOfUser(req[r].claims.user_id, r) # RecordOfUser(other, r)
            /\ (\E i \in 1..Len(recorded[r]) : recorded[r][i].ok) =>
                  AccountedKey(r) # RecordOfUser(other, r)

====
